---- MODULE Spec2Model ----
(***************************************************************************)
(* Telemetry logging pipeline (Phases/): TelemetryLoggingApp, LogManager,  *)
(* RingBuffer<LogMessage>, ThreadPool, the ILogSink implementations and    *)
(* the telemetry sources.                                                  *)
(*                                                                         *)
(* Spec      the whole pipeline: main thread (constructor, start(),        *)
(*           destructor), reader threads, writer thread, pool workers,     *)
(*           the signal handler as an asynchronous step                    *)
(* RingSpec  RingBuffer::tryPush / trypop called directly                  *)
(* FairSpec  the pipeline under fair scheduling of its threads             *)
(* SinkSpec  the pipeline with sinks whose write fails or throws           *)
(* SourceSpec the reader threads per source kind, start() and shutdown     *)
(* LockSpec  log() and write() with the two mutexes made explicit          *)
(* FileSpec  setupSinks and FileSinkImpl on files that exist already       *)
(*                                                                         *)
(* Variables commented `history` record what the program did and never     *)
(* influence it; those commented `environment` belong to the outside.      *)
(***************************************************************************)
EXTENDS Naturals, Integers, Sequences, FiniteSets, TLC

(* ---------------- bounds of the model ---------------- *)
\* number of reader threads started by setupTelemetrySources
NumReaders == 1
\* records each reader produces before its source runs dry
MaxMsgs == 2
\* largest value of log_manager.buffer_capacity / thread_pool_size tried
MaxCfg == 2
\* largest number of attached sinks tried
MaxSinks == 2
\* threads calling tryPush directly in RingSpec (at least NumReaders)
NumProducers == 2
\* largest RingBuffer capacity tried in RingSpec
MaxCap == 3

\* lines each telemetry source delivers in SourceSpec
MaxLines == 2
\* openSource calls counted per source (the count saturates here)
MaxOpens == 2
\* calls of start() the host makes in SourceSpec
MaxStarts == 2
\* file sinks listed in the configuration in FileSpec
MaxFiles == 2
\* lines a sink file holds before the program starts
MaxOld == 1

Readers == 1..NumReaders
Producers == 1..NumProducers
CfgValues == 1..MaxCfg

\* a LogMessage is identified by the thread that produced it and its rank
Records == [src : Producers, seq : 1..MaxMsgs]
\* std::nullopt in a slot of RingBuffer::buffer
NoRecord == [src |-> 0, seq |-> 0]

\* behaviours of an ILogSink::write implementation: the line lands; the
\* stream is in an error state and `stream << message` writes nothing; the
\* call throws
SinkModes == {"good", "failed", "raises"}
GoodSinks == [s \in 1..MaxSinks |-> "good"]

\* the telemetry sources of setupTelemetrySources
Kinds == {"file", "socket", "someip"}

\* paths of the file sinks in the configuration
Paths == 1..MaxFiles
\* a line that was in a file before the program started
OldLine(i) == [src |-> 0, seq |-> i]
OldContents == {[i \in 1..n |-> OldLine(i)] : n \in 0..MaxOld}

\* holders of a std::mutex: nobody, a thread inside log(), a drainer
Free == <<"none", 0>>
LogHolder(p) == <<"log", p>>
DrainHolder(d) == <<"drain", d>>

\* drainer 0 is the writer thread, drainers 1.. are the pool workers
WriterId == 0
DrainerIds == 0..MaxCfg

VARIABLES
    cfg,        \* values loadConfig read: buffer_capacity, thread_pool_size, sinks
    pcMain,     \* position of the main thread
    proc,       \* "running", "exiting" (exit(0) called), "exited"
    isRunning,  \* TelemetryLoggingApp::isRunning
    messages,   \* LogManager::messages, the RingBuffer
    nSinks,     \* LogManager::sinks.size()
    nWorkers,   \* ThreadPool::workers.size()
    tasks,      \* ThreadPool::tasks.size(); every task is [this]{ write(); }
    stop_flag,  \* ThreadPool::stop_flag
    rpc,        \* position of each reader thread
    rcur,       \* record the reader is logging
    produced,   \* records each producer has produced so far
    wpc,        \* position of the writer thread
    dpc,        \* position of each drainer inside LogManager::write
    dmsg,       \* maybe_msg of each drainer
    dsink,      \* index of the sink each drainer is writing
    raced,      \* drainers whose current sink write overlapped another one
    sinkMode,   \* per sink, how its write() behaves: "good", "failed"
                \* (stream in error state) or "raises"
    pushed,     \* history: records for which tryPush returned true, in order
    latePushed, \* history: records accepted after the writer thread finished
    rejected,   \* history: records for which tryPush returned false
    popped,     \* history: records returned by trypop, in order
    sinkOut,    \* history: per sink, the completed writes in order, each with
                \* the record and whether its line landed whole
    startSnap,  \* history: per sink and record, the records whose write on
                \* that sink had completed when this record's write began
    diag,       \* history: per record, "buffer full" lines printed
    taskLog,    \* history: per record, tasks pushed by its log() call
    sigPushed,  \* history: `pushed` at the moment the signal arrived
    srcs,       \* sources with "enabled": true in the configuration
    spc,        \* position of the reader thread of each source
    isOpen,     \* per source: fd != -1 / socket connected / proxy != nullptr
    openable,   \* environment: an open of the source would succeed now
    pending,    \* environment: lines the source has ready to be read
    fed,        \* environment: lines the source has delivered so far
    peerClosed, \* environment: the socket peer closed the connection
    reconnected, \* history: openSource replaced a connected socket
    lost,       \* history: lines closed away unread with their connection
    subscribed, \* the SOME/IP source has subscribed to the change event
    requested,  \* history: the SOME/IP source has called requestGpuUsageData
    fileHist,   \* history: "eof" once a read of the open file found nothing,
                \* "late" once a read after that returned a line
    opens,      \* history: openSource calls per source
    writers,    \* history: writer threads spawned
    startCalls, \* history: calls of start()
    lpc,        \* position of each thread calling LogManager::log directly
    mtx,        \* holder of RingBuffer::mtx
    queue_mutex, \* holder of ThreadPool::queue_mutex
    fcfg,       \* the "sinks" section: console enabled, file paths enabled
    canOpen,    \* environment: per path, std::ofstream(path) would open
    disk,       \* per path, the lines of the file
    disk0,      \* history: `disk` before the constructor ran
    attached,   \* LogManager::sinks in detail: kind, path, stream is open
    sinkErrors, \* history: error reports printed while setting up sinks
    written,    \* history: records LogManager::write has fanned out
    policy,     \* the "policy" string of the source in the configuration
    fpc,        \* position of the reader thread inside its loop body
    raw,        \* the line readSource stored in `raw`
    msg,        \* std::optional<LogMessage> msg of the loop body
    handed,     \* history: what the loop body passed to LogManager::log
    sval,       \* the floats inferSeverity is called with
    slevel,     \* the severity_level inferSeverity returned for each
    lmsg,       \* the LogMessages handed to operator<<
    os,         \* per LogMessage, what operator<< put on its stream
    rclass,     \* the class of the objects: "SafeFile" or "SafeSocket"
    life,       \* per object: "none" (no object yet), "live", "dead"
    fd,         \* per object: the member fd / sockfd
    opened,     \* history: descriptors open() / socket() returned so far
    closes,     \* history: per descriptor, calls of ::close on it
    movedFrom,  \* history: objects moved from and not assigned to since
    rfile,      \* the characters of the file a SafeFile was opened on
    rfd,        \* the member fd of that SafeFile
    roff,       \* the file offset of the descriptor
    rout,       \* the caller's string `out`
    rlpc,       \* position of the caller: "idle" or inside readLine's loop
    rcalls,     \* history: per finished readLine call, result and `out`
    rerr,       \* history: ::read calls that failed with a real error
    rintr,      \* history: ::read calls that failed with EINTR
    held        \* history: per thread, the records the buffer held when
                \* its call of LogManager::write began

vars == <<cfg, sinkMode, pcMain, proc, isRunning, messages, nSinks, nWorkers,
          tasks, stop_flag, rpc, rcur, produced, wpc, dpc, dmsg, dsink, raced,
          pushed, latePushed, rejected, popped, sinkOut, startSnap, diag, taskLog,
          sigPushed, srcs, spc, isOpen, openable, pending, fed, peerClosed,
          reconnected, lost, subscribed, requested, fileHist,
          opens, writers, startCalls, lpc, mtx, queue_mutex, fcfg, canOpen,
          disk, disk0, attached, sinkErrors, written, policy, fpc, raw, msg,
          handed, sval, slevel, lmsg, os, rclass, life, fd, opened, closes,
          movedFrom, rfile, rfd, roff, rout, rlpc, rcalls, rerr, rintr, held>>

srcThreads == <<spc, isOpen>>
srcEnv == <<srcs, openable, pending, fed, peerClosed, opens, writers,
            startCalls>>
sockHist == <<reconnected, lost>>
someipVars == <<subscribed, requested>>
srcVars == <<srcThreads, srcEnv, sockHist, someipVars, fileHist>>
lockVars == <<lpc, mtx, queue_mutex>>
fileVars == <<fcfg, canOpen, disk, disk0, attached, sinkErrors, written>>
fmtVars == <<policy, fpc, raw, msg, handed>>
sevVars == <<sval, slevel>>
renderVars == <<lmsg, os>>
raiiVars == <<rclass, life, fd, opened, closes, movedFrom>>
rlVars == <<rfile, rfd, roff, rout, rlpc, rcalls, rerr, rintr>>
unitVars == <<fmtVars, sevVars, renderVars, raiiVars, rlVars, held>>

appVars == <<cfg, sinkMode, srcVars, lockVars, unitVars, fileVars, pcMain, proc,
             isRunning, nSinks, nWorkers>>
poolVars == <<tasks, stop_flag>>
readerVars == <<rpc, rcur, produced>>
drainVars == <<wpc, dpc, dmsg, dsink, raced>>
histRing == <<pushed, latePushed, rejected, popped>>
histOut == <<sinkOut, startSnap, diag, taskLog, sigPushed>>

(* ---------------- RingBuffer<T> ---------------- *)
\* RingBuffer(size_t capacity): all slots empty, indices and count zero
RingBufferCtor(cap) ==
    [buffer |-> [i \in 0..(cap - 1) |-> NoRecord],
     capacity |-> cap, read_index |-> 0, write_index |-> 0, count |-> 0]

\* a full test that is off by one
RingFullLate(rb) == rb.count > rb.capacity

\* the guard `count == capacity` of tryPush
RingFull(rb) == rb.count = rb.capacity

\* an index that is never advanced
AdvanceStuck(i, cap) == i

\* an index that runs past the end of the vector
AdvanceNoWrap(i, cap) == i + 1

\* index arithmetic `(i + 1) % capacity`
Advance(i, cap) == (i + 1) % cap

\* bool tryPush(const T&): result and buffer afterwards (runs under mtx)
tryPush(rb, item) ==
    IF RingFull(rb)
    THEN [ok |-> FALSE, rb |-> rb]
    ELSE [ok |-> TRUE,
          rb |-> [rb EXCEPT !.buffer[rb.write_index] = item,
                            !.write_index = Advance(rb.write_index, rb.capacity),
                            !.count = rb.count + 1]]

\* a trypop that returns the oldest record without removing it
trypopPeek(rb) ==
    IF rb.count = 0
    THEN [item |-> NoRecord, rb |-> rb]
    ELSE [item |-> rb.buffer[rb.read_index], rb |-> rb]

\* a trypop that leaves the record in its slot
trypopKeepsSlot(rb) ==
    IF rb.count = 0
    THEN [item |-> NoRecord, rb |-> rb]
    ELSE [item |-> rb.buffer[rb.read_index],
          rb |-> [rb EXCEPT !.read_index = Advance(rb.read_index, rb.capacity),
                            !.count = rb.count - 1]]

\* std::optional<T> trypop(): result and buffer afterwards (runs under mtx)
trypop(rb) ==
    IF rb.count = 0
    THEN [item |-> NoRecord, rb |-> rb]
    ELSE [item |-> rb.buffer[rb.read_index],
          rb |-> [rb EXCEPT !.buffer[rb.read_index] = NoRecord,
                            !.read_index = Advance(rb.read_index, rb.capacity),
                            !.count = rb.count - 1]]

(* ---------------- construction ---------------- *)
\* LogManager(size_t thread_count, size_t capacity)
\*   : pool(make_unique<ThreadPool>(thread_count)), messages(capacity)
LogManagerCtor(thread_count, capacity) ==
    [workers |-> thread_count, messages |-> RingBufferCtor(capacity)]

\* logger = std::make_unique<LogManager>(buffer_capacity, thread_pool_size)
AppMakeLogger(c) == LogManagerCtor(c.buffer_capacity, c.thread_pool_size)

\* before the constructor has run: no thread, nothing logged
InitCommon ==
    /\ pcMain = "new"
    /\ proc = "running"
    /\ isRunning = FALSE
    /\ nSinks = 0
    /\ nWorkers = 0
    /\ tasks = 0
    /\ stop_flag = FALSE
    /\ rpc = [r \in Readers |-> "unspawned"]
    /\ rcur = [r \in Readers |-> NoRecord]
    /\ produced = [r \in Producers |-> 0]
    /\ wpc = "unspawned"
    /\ dpc = [d \in DrainerIds |-> "none"]
    /\ dmsg = [d \in DrainerIds |-> NoRecord]
    /\ dsink = [d \in DrainerIds |-> 0]
    /\ raced = {}
    /\ pushed = <<>>
    /\ latePushed = {}
    /\ rejected = {}
    /\ popped = <<>>
    /\ sinkOut = [s \in 1..MaxSinks |-> <<>>]
    /\ startSnap = [s \in 1..MaxSinks |-> [m \in Records |-> {}]]
    /\ diag = [m \in Records |-> 0]
    /\ taskLog = [m \in Records |-> 0]
    /\ sigPushed = <<>>
    /\ spc = [k \in Kinds |-> "unspawned"]
    /\ isOpen = [k \in Kinds |-> FALSE]
    /\ pending = [k \in Kinds |-> 0]
    /\ fed = [k \in Kinds |-> 0]
    /\ peerClosed = FALSE
    /\ reconnected = FALSE
    /\ lost = 0
    /\ subscribed = FALSE
    /\ requested = FALSE
    /\ fileHist = "none"
    /\ opens = [k \in Kinds |-> 0]
    /\ writers = 0
    /\ startCalls = 0
    /\ attached = <<>>
    /\ sinkErrors = 0
    /\ written = 0
    /\ lpc = [p \in Producers |-> "idle"]
    /\ mtx = Free
    /\ queue_mutex = Free

\* a configuration with every source disabled
NoSources ==
    /\ srcs = {}
    /\ openable = [k \in Kinds |-> TRUE]

\* the sinks are those counted by cfg.sinks and their files are not looked at
NoFiles ==
    /\ fcfg = [console |-> FALSE, files |-> [f \in Paths |-> FALSE]]
    /\ canOpen = [f \in Paths |-> TRUE]
    /\ disk = [f \in Paths |-> <<>>]
    /\ disk0 = [f \in Paths |-> <<>>]

\* no reader loop body is looked at in detail
NoFormat ==
    /\ policy = "cpu"
    /\ fpc = "none"
    /\ raw = <<>>
    /\ msg = <<>>
    /\ handed = <<>>

\* inferSeverity is not called on its own
NoSeverity ==
    /\ sval = <<>>
    /\ slevel = <<>>

\* operator<< is not called on its own
NoRender ==
    /\ lmsg = <<>>
    /\ os = <<>>

\* no SafeFile or SafeSocket object is followed
NoDescriptors ==
    /\ rclass = "SafeFile"
    /\ life = <<>>
    /\ fd = <<>>
    /\ opened = 0
    /\ closes = <<>>
    /\ movedFrom = {}

\* SafeFile::readLine is not called on its own
NoReadLine ==
    /\ rfile = <<>>
    /\ rfd = 0 - 1
    /\ roff = 0
    /\ rout = <<>>
    /\ rlpc = "idle"
    /\ rcalls = <<>>
    /\ rerr = 0
    /\ rintr = 0

\* LogManager::write is not followed call by call
NoWriteCalls == held = <<>>

\* the parts modelled on their own are idle
NoUnits ==
    /\ NoFormat
    /\ NoSeverity
    /\ NoRender
    /\ NoDescriptors
    /\ NoReadLine
    /\ NoWriteCalls

\* the values loadConfig may find in the "log_manager" and "sinks" sections
Init ==
    /\ cfg \in [buffer_capacity : CfgValues, thread_pool_size : CfgValues,
                sinks : 1..MaxSinks]
    /\ sinkMode = GoodSinks
    /\ NoSources
    /\ NoFiles
    /\ NoUnits
    /\ messages = RingBufferCtor(0)
    /\ InitCommon

\* a thread can take a step while the process exists.  The thread the
\* signal handler interrupted never resumes (exit does not return); a
\* thread that takes no further step is already a behaviour of Spec.
MainRuns == proc \notin {"exited", "aborted"}
ThreadsRun == proc \notin {"exited", "aborted"}

\* TelemetryLoggingApp::TelemetryLoggingApp: loadConfig, setupSinks,
\* make the LogManager (which starts the pool workers), add the sinks
Construct ==
    /\ MainRuns /\ pcMain = "new"
    /\ LET lm == AppMakeLogger(cfg) IN
        /\ messages' = lm.messages
        /\ nWorkers' = lm.workers
        /\ dpc' = [d \in DrainerIds |->
                     IF d >= 1 /\ d <= lm.workers THEN "idle" ELSE "none"]
    /\ nSinks' = cfg.sinks
    /\ pcMain' = "constructed"
    /\ UNCHANGED <<cfg, sinkMode, srcVars, lockVars, unitVars, fileVars, proc,
                   isRunning, poolVars, readerVars,
                   wpc, dmsg, dsink, raced, histRing, histOut>>

\* TelemetryLoggingApp::start up to the first join: isRunning = true,
\* startWriterThread, setupTelemetrySources
Start ==
    /\ MainRuns /\ pcMain = "constructed"
    /\ isRunning' = TRUE
    /\ wpc' = "loop"
    /\ rpc' = [r \in Readers |-> "loop"]
    /\ pcMain' = "joinSources"
    /\ UNCHANGED <<cfg, sinkMode, srcVars, lockVars, unitVars, fileVars, proc,
                   messages, nSinks, nWorkers, poolVars,
                   rcur, produced, dpc, dmsg, dsink, raced, histRing, histOut>>

\* start(): for (auto &t : sourceThreads) t.join()
JoinSources ==
    /\ MainRuns /\ pcMain = "joinSources"
    /\ \A r \in Readers : rpc[r] = "done"
    /\ pcMain' = "joinWriter"
    /\ UNCHANGED <<cfg, sinkMode, srcVars, lockVars, unitVars, fileVars, proc,
                   isRunning, messages, nSinks, nWorkers,
                   poolVars, readerVars, drainVars, histRing, histOut>>

\* start(): writerThread_.join(), then start() returns
JoinWriter ==
    /\ MainRuns /\ pcMain = "joinWriter"
    /\ wpc = "done"
    /\ pcMain' = "returned"
    /\ UNCHANGED <<cfg, sinkMode, srcVars, lockVars, unitVars, fileVars, proc,
                   isRunning, messages, nSinks, nWorkers,
                   poolVars, readerVars, drainVars, histRing, histOut>>

\* ~TelemetryLoggingApp body (isRunning = false; the threads were joined
\* by start() or never started), then ~LogManager destroys `pool` first:
\* ~ThreadPool sets stop_flag and notifies the workers
Destroy ==
    /\ MainRuns /\ pcMain \in {"constructed", "returned"}
    /\ isRunning' = FALSE
    /\ stop_flag' = TRUE
    /\ pcMain' = "joinWorkers"
    /\ UNCHANGED <<cfg, sinkMode, srcVars, lockVars, unitVars, fileVars, proc,
                   messages, nSinks, nWorkers, tasks,
                   readerVars, drainVars, histRing, histOut>>

\* a destructor that does not wait for worker d
JoinedUnseen(d) == TRUE

\* t.join() on worker d returns
Joined(d) == dpc[d] = "exited"

\* ~ThreadPool: for (auto &t : workers) t.join(); then the remaining
\* members of LogManager go in reverse order of declaration: the buffer
\* `messages`, then `sinks`
JoinWorkers ==
    /\ MainRuns /\ pcMain = "joinWorkers"
    /\ \A d \in 1..nWorkers : Joined(d)
    /\ pcMain' = "destroyed"
    /\ UNCHANGED <<cfg, sinkMode, srcVars, lockVars, unitVars, fileVars, proc,
                   isRunning, messages, nSinks, nWorkers,
                   poolVars, readerVars, drainVars, histRing, histOut>>

\* TelemetryLoggingApp::signalHandler: isRunning = false; exit(0).
\* The handler is installed by the constructor.  exit never returns, so
\* the interrupted thread stops; the other threads run until the process
\* is gone.
SignalHandler ==
    /\ proc = "running"
    /\ pcMain \notin {"new", "destroyed"}
    /\ isRunning' = FALSE
    /\ proc' = "exiting"
    /\ sigPushed' = pushed
    /\ UNCHANGED <<cfg, sinkMode, srcVars, lockVars, unitVars, fileVars, pcMain,
                   messages, nSinks, nWorkers, poolVars,
                   readerVars, drainVars, histRing, sinkOut, startSnap, diag,
                   taskLog>>

\* the process ends (exit finished, or std::terminate): its threads and
\* its memory are gone; the configuration, the environment and what was
\* written stay
ProcessGone(how) ==
    /\ proc' = how
    /\ pcMain' = "gone"
    /\ isRunning' = FALSE
    /\ messages' = RingBufferCtor(0)
    /\ nWorkers' = 0
    /\ tasks' = 0
    /\ stop_flag' = FALSE
    /\ rpc' = [r \in Readers |-> "gone"]
    /\ rcur' = [r \in Readers |-> NoRecord]
    /\ wpc' = "gone"
    /\ dpc' = [d \in DrainerIds |-> "gone"]
    /\ dmsg' = [d \in DrainerIds |-> NoRecord]
    /\ dsink' = [d \in DrainerIds |-> 0]
    /\ raced' = {}
    /\ spc' = [k \in Kinds |-> "gone"]
    /\ isOpen' = [k \in Kinds |-> FALSE]
    /\ UNCHANGED <<cfg, sinkMode, lockVars, unitVars, fileVars, sockHist, someipVars, fileHist, srcEnv, nSinks, produced, histRing, histOut>>

\* exit(0) finishes: the process, its threads and its memory are gone;
\* what was written to the sinks stays
ProcessExit ==
    /\ proc = "exiting"
    /\ ProcessGone("exited")

(* ---------------- reader threads ---------------- *)
\* while (isRunning) { if (readSource(raw)) { msg = format(raw); log(msg) } }
ReaderLoop(r) ==
    /\ ThreadsRun /\ rpc[r] = "loop"
    /\ IF ~isRunning
       THEN /\ rpc' = [rpc EXCEPT ![r] = "done"]
            /\ UNCHANGED <<rcur, produced>>
       ELSE /\ produced[r] < MaxMsgs
            /\ produced' = [produced EXCEPT ![r] = @ + 1]
            /\ rcur' = [rcur EXCEPT ![r] = [src |-> r, seq |-> produced[r] + 1]]
            /\ rpc' = [rpc EXCEPT ![r] = "push"]
    /\ UNCHANGED <<appVars, messages, poolVars, drainVars, histRing, histOut>>

\* a log() that prints the drop line whatever tryPush returned
AfterTryPushAlways(ok) == "diag"

\* `if (!messages.tryPush(message)) { std::cout << ... }`: where log() goes
\* after tryPush returned ok
AfterTryPush(ok) == IF ok THEN "task" ELSE "diag"

\* LogManager::log: messages.tryPush(message)
LogTryPush(r) ==
    /\ ThreadsRun /\ rpc[r] = "push"
    /\ LET res == tryPush(messages, rcur[r]) IN
        /\ messages' = res.rb
        /\ rpc' = [rpc EXCEPT ![r] = AfterTryPush(res.ok)]
        /\ IF res.ok
           THEN /\ pushed' = Append(pushed, rcur[r])
                /\ latePushed' = IF wpc = "done" THEN latePushed \cup {rcur[r]}
                                  ELSE latePushed
                /\ UNCHANGED rejected
           ELSE /\ rejected' = rejected \cup {rcur[r]}
                /\ UNCHANGED <<pushed, latePushed>>
    /\ UNCHANGED <<appVars, poolVars, rcur, produced, drainVars, popped,
                   histOut>>

\* a log() that returns after the drop line
AfterDiagReturns == "loop"

\* where log() goes after the drop line: the if statement ends and
\* pool->push_task follows
AfterDiag == "task"

\* LogManager::log: std::cout << "[LogManager] buffer full, message dropped\n"
LogDiag(r) ==
    /\ ThreadsRun /\ rpc[r] = "diag"
    /\ diag' = [diag EXCEPT ![rcur[r]] = @ + 1]
    /\ rpc' = [rpc EXCEPT ![r] = AfterDiag]
    /\ UNCHANGED <<appVars, messages, poolVars, rcur, produced, drainVars,
                   histRing, sinkOut, startSnap, taskLog, sigPushed>>

\* LogManager::log: pool->push_task([this]{ write(); }); then the sleep
LogPushTask(r) ==
    /\ ThreadsRun /\ rpc[r] = "task"
    /\ tasks' = tasks + 1
    /\ taskLog' = [taskLog EXCEPT ![rcur[r]] = @ + 1]
    /\ rpc' = [rpc EXCEPT ![r] = "loop"]
    /\ UNCHANGED <<appVars, messages, stop_flag, rcur, produced, drainVars,
                   histRing, sinkOut, startSnap, diag, sigPushed>>

(* ---------------- writer thread ---------------- *)
\* while (isRunning) { sleep; logger->write(); }  logger->write();
WriterLoop ==
    /\ ThreadsRun /\ wpc = "loop"
    /\ wpc' = IF isRunning THEN "periodic" ELSE "final"
    /\ dpc' = [dpc EXCEPT ![WriterId] = "pop"]
    /\ UNCHANGED <<appVars, messages, poolVars, readerVars, dmsg, dsink, raced,
                   histRing, histOut>>

(* ---------------- pool workers ---------------- *)
\* worker_loop returning although tasks are queued
WorkerExitsOnStop(stop, ntasks) == stop

\* `if (stop_flag && tasks.empty()) return;`
WorkerExits(stop, ntasks) == stop /\ ntasks = 0

\* ThreadPool::worker_loop: wait for stop_flag or a task; return when
\* stopped and the queue is empty; otherwise take the front task and run it
WorkerLoop(d) ==
    /\ ThreadsRun /\ d \in 1..nWorkers /\ dpc[d] = "idle"
    /\ stop_flag \/ tasks > 0
    /\ IF WorkerExits(stop_flag, tasks)
       THEN /\ dpc' = [dpc EXCEPT ![d] = "exited"]
            /\ UNCHANGED tasks
       ELSE /\ tasks' = tasks - 1
            /\ dpc' = [dpc EXCEPT ![d] = "pop"]
    /\ UNCHANGED <<appVars, messages, stop_flag, readerVars, wpc, dmsg, dsink,
                   raced, histRing, histOut>>

(* ---------------- LogManager::write ---------------- *)
\* a loop over the sinks that leaves out every second one
NextSinkSkip(s) == s + 2

\* the sink written after sink s in `for (auto &sink : sinks)`
NextSink(s) == s + 1

\* a loop over n sinks that begins with the one added last
FirstSinkLast(n) == n

\* the sink `for (auto &sink : sinks)` begins with, of n sinks
FirstSink(n) == 1

\* what a drainer does when write() returns
AfterWrite(d) == IF d = WriterId THEN "back" ELSE "idle"

\* while (auto maybe_msg = messages.trypop())
WritePop(d) ==
    /\ ThreadsRun /\ dpc[d] = "pop"
    /\ LET res == trypop(messages) IN
        /\ messages' = res.rb
        /\ IF res.item = NoRecord
           THEN /\ dpc' = [dpc EXCEPT ![d] = AfterWrite(d)]
                /\ UNCHANGED <<dmsg, dsink, popped>>
           ELSE /\ popped' = Append(popped, res.item)
                /\ dmsg' = [dmsg EXCEPT ![d] = res.item]
                /\ dsink' = [dsink EXCEPT ![d] = FirstSink(nSinks)]
                /\ dpc' = [dpc EXCEPT ![d] = IF nSinks >= 1 THEN "enter" ELSE "pop"]
    /\ UNCHANGED <<appVars, poolVars, readerVars, wpc, raced, pushed,
                   latePushed,
                   rejected, histOut>>

\* the writer thread's write() returned: loop again or finish
WriterBack ==
    /\ ThreadsRun /\ dpc[WriterId] = "back"
    /\ dpc' = [dpc EXCEPT ![WriterId] = "none"]
    /\ wpc' = IF wpc = "periodic" THEN "loop" ELSE "done"
    /\ UNCHANGED <<appVars, messages, poolVars, readerVars, dmsg, dsink, raced,
                   histRing, histOut>>

\* records whose write() on sink s has returned
Completed(s) == {sinkOut[s][i].rec : i \in 1..Len(sinkOut[s])}

\* drainers inside write() of sink s (ILogSink::write takes no lock)
InSink(s) == {e \in DrainerIds : dpc[e] = "in" /\ dsink[e] = s}

\* sink->write(maybe_msg.value()) is entered
SinkEnter(d) ==
    /\ ThreadsRun /\ dpc[d] = "enter"
    /\ dpc' = [dpc EXCEPT ![d] = "in"]
    /\ raced' = IF InSink(dsink[d]) # {}
                THEN raced \cup InSink(dsink[d]) \cup {d}
                ELSE raced
    /\ startSnap' = [startSnap EXCEPT ![dsink[d]][dmsg[d]] =
                       Completed(dsink[d])]
    /\ UNCHANGED <<appVars, messages, poolVars, readerVars, wpc, dmsg, dsink,
                   histRing, sinkOut, diag, taskLog, sigPushed>>

\* outcomes of `stream << message`: the record's line lands whole, or,
\* when another thread was inside write() on the same stream (a data race
\* on the stream buffer), possibly damaged; on a stream in an error state
\* nothing lands
WriteOutcomes(d) ==
    IF sinkMode[dsink[d]] = "failed" THEN {FALSE}
    ELSE IF d \in raced THEN {TRUE, FALSE} ELSE {TRUE}

\* sink->write(...) returns; next sink, or back to trypop
SinkExit(d) ==
    /\ ThreadsRun /\ dpc[d] = "in"
    /\ sinkMode[dsink[d]] # "raises"
    /\ \E ok \in WriteOutcomes(d) :
        sinkOut' = [sinkOut EXCEPT ![dsink[d]] =
                      Append(@, [rec |-> dmsg[d], ok |-> ok])]
    /\ raced' = raced \ {d}
    /\ dsink' = [dsink EXCEPT ![d] = NextSink(@)]
    /\ dpc' = [dpc EXCEPT ![d] = IF NextSink(dsink[d]) <= nSinks THEN "enter" ELSE "pop"]
    /\ UNCHANGED <<appVars, messages, poolVars, readerVars, wpc, dmsg,
                   histRing, startSnap, diag, taskLog, sigPushed>>

\* sink->write(...) throws.  LogManager::write calls it outside any try
\* block, and so do its callers (the task lambda, worker_loop, the writer
\* thread's lambda): the exception leaves the thread function and
\* std::terminate ends the process with every thread where it stands
SinkRaise(d) ==
    /\ ThreadsRun /\ dpc[d] = "in"
    /\ sinkMode[dsink[d]] = "raises"
    /\ ProcessGone("aborted")

Next ==
    \/ Construct
    \/ Start
    \/ JoinSources
    \/ JoinWriter
    \/ Destroy
    \/ JoinWorkers
    \/ SignalHandler
    \/ ProcessExit
    \/ \E r \in Readers : ReaderLoop(r)
    \/ \E r \in Readers : LogTryPush(r)
    \/ \E r \in Readers : LogDiag(r)
    \/ \E r \in Readers : LogPushTask(r)
    \/ WriterLoop
    \/ WriterBack
    \/ \E d \in DrainerIds : WorkerLoop(d)
    \/ \E d \in DrainerIds : WritePop(d)
    \/ \E d \in DrainerIds : SinkEnter(d)
    \/ \E d \in DrainerIds : SinkExit(d)

Spec == Init /\ [][Next]_vars

(* ---------------- RingBuffer on its own ---------------- *)
\* Producers and consumers call tryPush and trypop directly on one
\* RingBuffer.  Both run under RingBuffer::mtx, so every interleaving of
\* calls is a sequence of whole calls.
RingInit ==
    /\ cfg = [buffer_capacity |-> 1, thread_pool_size |-> 1, sinks |-> 1]
    /\ sinkMode = GoodSinks
    /\ NoSources
    /\ NoFiles
    /\ NoUnits
    /\ \E cap \in 1..MaxCap : messages = RingBufferCtor(cap)
    /\ InitCommon

\* producer p calls tryPush with its next record
RingPush(p) ==
    /\ produced[p] < MaxMsgs
    /\ LET item == [src |-> p, seq |-> produced[p] + 1]
           res == tryPush(messages, item) IN
        /\ messages' = res.rb
        /\ IF res.ok
           THEN pushed' = Append(pushed, item) /\ UNCHANGED rejected
           ELSE rejected' = rejected \cup {item} /\ UNCHANGED pushed
    /\ produced' = [produced EXCEPT ![p] = @ + 1]
    /\ UNCHANGED <<appVars, poolVars, rpc, rcur, drainVars, latePushed, popped,
                   histOut>>

\* a consumer calls trypop
RingPop ==
    /\ LET res == trypop(messages) IN
        /\ messages' = res.rb
        /\ popped' = IF res.item = NoRecord THEN popped ELSE Append(popped, res.item)
    /\ UNCHANGED <<appVars, poolVars, readerVars, drainVars, pushed, latePushed,
                   rejected, histOut>>

RingNext ==
    \/ \E p \in Producers : RingPush(p)
    \/ RingPop

RingSpec == RingInit /\ [][RingNext]_vars

(* ---------------- the pipeline under fair scheduling ---------------- *)
\* The pipeline with MaxSinks working sinks and log_manager.thread_pool_size
\* set to 1.
FairInit ==
    /\ cfg \in [buffer_capacity : CfgValues, thread_pool_size : {1},
                sinks : {MaxSinks}]
    /\ sinkMode = GoodSinks
    /\ NoSources
    /\ NoFiles
    /\ NoUnits
    /\ messages = RingBufferCtor(0)
    /\ InitCommon

\* Every thread that can take a step is eventually scheduled: the main
\* thread inside start() and the destructor, the readers, the writer
\* (its sleep_for ends), the pool workers (condition.wait returns once
\* notified with the predicate true).  When the host calls start() or
\* destroys the app, and when a signal arrives, is left open.
Fairness ==
    /\ WF_vars(JoinSources) /\ WF_vars(JoinWriter) /\ WF_vars(JoinWorkers)
    /\ WF_vars(ProcessExit)
    /\ \A r \in Readers :
        WF_vars(ReaderLoop(r) \/ LogTryPush(r) \/ LogDiag(r) \/ LogPushTask(r))
    /\ WF_vars(WriterLoop \/ WriterBack)
    /\ \A d \in DrainerIds :
        WF_vars(WorkerLoop(d) \/ WritePop(d) \/ SinkEnter(d) \/ SinkExit(d))

FairSpec == FairInit /\ [][Next]_vars /\ Fairness

(* ---------------- sinks that fail ---------------- *)
\* The pipeline with MaxSinks sinks attached, each behaving in one of
\* SinkModes on every call.
SinkInit ==
    /\ cfg \in [buffer_capacity : CfgValues, thread_pool_size : {1},
                sinks : {MaxSinks}]
    /\ sinkMode \in [1..MaxSinks -> SinkModes]
    /\ NoSources
    /\ NoFiles
    /\ NoUnits
    /\ messages = RingBufferCtor(0)
    /\ InitCommon

SinkNext ==
    \/ Next
    \/ \E d \in DrainerIds : SinkRaise(d)

SinkSpec == SinkInit /\ [][SinkNext]_vars

(* ---------------- the telemetry sources ---------------- *)
\* The reader threads of setupTelemetrySources step by step, one per
\* enabled source, with the main thread, the writer thread and the signal
\* handler.  logger->log(msg) is the subject of Spec; here a line that was
\* read is consumed and nothing else is kept of it.
SourceInit ==
    /\ cfg = [buffer_capacity |-> 1, thread_pool_size |-> 1, sinks |-> 1]
    /\ sinkMode = GoodSinks
    /\ messages = RingBufferCtor(0)
    /\ InitCommon
    /\ srcs \in SUBSET Kinds
    /\ openable \in [Kinds -> BOOLEAN]
    /\ NoFiles
    /\ NoUnits

\* where the thread of source k begins: the file and SOME/IP lambdas call
\* openSource first, the socket lambda enters `while (isRunning)` first
FirstPc(k) == IF k = "socket" THEN "test" ELSE "open"

\* one more openSource call on source k
CountOpen(k) ==
    opens' = [opens EXCEPT ![k] = IF @ < MaxOpens THEN @ + 1 ELSE @]

\* TelemetryLoggingApp::start up to the first join, called by the host
\* on a constructed object whenever the main thread is not inside start():
\* isRunning = true; startWriterThread(); setupTelemetrySources().  start()
\* tests nothing before it does so.  The source objects are made anew by
\* the lambdas; the SOME/IP source is a singleton and keeps its proxy.
AppStart ==
    /\ MainRuns /\ pcMain \in {"constructed", "returned"}
    /\ startCalls < MaxStarts
    /\ startCalls' = startCalls + 1
    /\ isRunning' = TRUE
    /\ wpc' = "loop"
    /\ writers' = writers + 1
    /\ spc' = [k \in Kinds |-> IF k \in srcs THEN FirstPc(k) ELSE spc[k]]
    /\ isOpen' = [k \in Kinds |-> k = "someip" /\ isOpen[k]]
    /\ pcMain' = "joinSources"
    /\ UNCHANGED <<cfg, sinkMode, lockVars, unitVars, fileVars, sockHist, someipVars, fileHist, srcs, openable,
                   pending, fed, peerClosed,
                   opens, proc, messages, nSinks, nWorkers, poolVars,
                   readerVars, dpc, dmsg, dsink, raced, histRing, histOut>>

\* start(): for (auto &t : sourceThreads) if (t.joinable()) t.join()
JoinSourceThreads ==
    /\ MainRuns /\ pcMain = "joinSources"
    /\ \A k \in srcs : spc[k] = "done"
    /\ pcMain' = "joinWriter"
    /\ UNCHANGED <<cfg, sinkMode, srcVars, lockVars, unitVars, fileVars, proc,
                   isRunning, messages, nSinks,
                   nWorkers, poolVars, readerVars, drainVars, histRing, histOut>>

\* file reader: source->openSource().  FileTelemetrySrc::openSource
\* assigns SafeFile(path), whose constructor only prints when ::open
\* fails, and returns true
FileOpenSource ==
    /\ ThreadsRun /\ spc["file"] = "open"
    /\ isOpen' = [isOpen EXCEPT !["file"] = openable["file"]]
    /\ CountOpen("file")
    /\ spc' = [spc EXCEPT !["file"] = "test"]
    /\ UNCHANGED <<cfg, sinkMode, lockVars, unitVars, fileVars, sockHist, someipVars, fileHist, srcs, openable,
                   pending, fed, peerClosed,
                   writers, startCalls, pcMain, proc, isRunning, messages,
                   nSinks, nWorkers, poolVars, readerVars, drainVars, histRing,
                   histOut>>

\* SOME/IP reader: `if (!source.openSource()) return;` where openSource
\* gets the runtime, builds the proxy and returns proxy != nullptr.  It
\* neither subscribes nor requests: the subscription is in start(), which
\* the reader lambda does not call, and the request is in readSource.
SomeIPOpenSource ==
    /\ ThreadsRun /\ spc["someip"] = "open"
    /\ isOpen' = [isOpen EXCEPT !["someip"] = openable["someip"]]
    /\ CountOpen("someip")
    /\ spc' = [spc EXCEPT !["someip"] = IF openable["someip"] THEN "test" ELSE "done"]
    /\ UNCHANGED <<cfg, sinkMode, lockVars, unitVars, fileVars, sockHist, someipVars, fileHist, srcs, openable,
                   pending, fed, peerClosed,
                   writers, startCalls, pcMain, proc, isRunning, messages,
                   nSinks, nWorkers, poolVars, readerVars, drainVars, histRing,
                   histOut>>

\* lines left to read after `sock = SafeSocket(ip, port)` on a source that
\* held n unread lines on its connection: move assignment closes the old
\* socket and what the peer sent on it goes with it
UnreadAfterOpen(n) == 0

\* socket reader: `if (source->openSource())` in every iteration.
\* SocketTelemetrySrc::openSource assigns SafeSocket(ip, port), a new
\* connection; the constructor throws std::runtime_error when socket() or
\* connect() fails.  Nothing in the lambda catches, so the exception leaves
\* the thread function and std::terminate ends the process.  With a
\* connection already there the assignment closes it.
SocketOpenSource ==
    /\ ThreadsRun /\ spc["socket"] = "open"
    /\ IF openable["socket"]
       THEN /\ isOpen' = [isOpen EXCEPT !["socket"] = TRUE]
            /\ peerClosed' = FALSE
            /\ CountOpen("socket")
            /\ reconnected' = (reconnected \/ isOpen["socket"])
            /\ pending' = [pending EXCEPT !["socket"] =
                             IF isOpen["socket"] THEN UnreadAfterOpen(@) ELSE @]
            /\ lost' = IF isOpen["socket"]
                       THEN lost + (pending["socket"]
                                    - UnreadAfterOpen(pending["socket"]))
                       ELSE lost
            /\ spc' = [spc EXCEPT !["socket"] = "read"]
            /\ UNCHANGED <<cfg, sinkMode, lockVars, unitVars, fileVars, someipVars, fileHist,
                           srcs, openable, fed, writers,
                           startCalls, pcMain, proc, isRunning, messages, nSinks,
                           nWorkers, poolVars, readerVars, drainVars, histRing,
                           histOut>>
       ELSE ProcessGone("aborted")

\* `while (isRunning)` of the reader of source k
ReaderTest(k) ==
    /\ ThreadsRun /\ spc[k] = "test"
    /\ spc' = [spc EXCEPT ![k] =
                 IF ~isRunning THEN "done"
                 ELSE IF k = "socket" THEN "open" ELSE "read"]
    /\ UNCHANGED <<cfg, sinkMode, lockVars, unitVars, fileVars, sockHist, someipVars, fileHist, isOpen, srcEnv, pcMain,
                   proc, isRunning,
                   messages, nSinks, nWorkers, poolVars, readerVars, drainVars,
                   histRing, histOut>>

\* readSource(raw) can return: SafeFile::readLine returns false on
\* fd == -1 and at end of file, the SOME/IP request returns a status;
\* SafeSocket::receiveLine sits in recv(sockfd, &c, 1, 0) until the peer
\* sends a byte or closes (EINTR restarts the call)
ReadReturns(k) ==
    k # "socket" \/ ~isOpen[k] \/ pending[k] > 0 \/ peerClosed

\* a loop that ends when readSource returns false
AfterReadExits(got) == IF got THEN "test" ELSE "done"

\* where the reader goes after readSource returned got: the body is
\* skipped when got is false, the sleep follows in both cases and then
\* the test of `while (isRunning)`
AfterRead(got) == "test"

\* `if (source->readSource(raw)) { format; logger->log }` and the sleep.
\* SomeIPTelemetrySourceImpl::readSource returns false without a proxy and
\* otherwise calls proxy->requestGpuUsageData.
ReadSource(k) ==
    /\ ThreadsRun /\ spc[k] = "read"
    /\ ReadReturns(k)
    /\ pending' = [pending EXCEPT ![k] =
                     IF isOpen[k] /\ @ > 0 THEN @ - 1 ELSE @]
    /\ requested' = (requested \/ (k = "someip" /\ isOpen[k]))
    /\ fileHist' = IF k = "file" /\ isOpen[k]
                   THEN (IF pending[k] = 0 /\ fileHist = "none" THEN "eof"
                         ELSE IF pending[k] > 0 /\ fileHist = "eof" THEN "late"
                         ELSE fileHist)
                   ELSE fileHist
    /\ spc' = [spc EXCEPT ![k] = AfterRead(isOpen[k] /\ pending[k] > 0)]
    /\ UNCHANGED <<cfg, sinkMode, lockVars, unitVars, fileVars, sockHist, subscribed, isOpen,
                   srcs, openable, fed, peerClosed, opens,
                   writers, startCalls, pcMain, proc, isRunning, messages,
                   nSinks, nWorkers, poolVars, readerVars, drainVars, histRing,
                   histOut>>

\* environment: source k has one more line ready
SourceFeeds(k) ==
    /\ proc = "running" /\ k \in srcs
    /\ fed[k] < MaxLines
    /\ fed' = [fed EXCEPT ![k] = @ + 1]
    /\ pending' = [pending EXCEPT ![k] = @ + 1]
    /\ UNCHANGED <<cfg, sinkMode, lockVars, unitVars, fileVars, sockHist, someipVars, fileHist, srcThreads, srcs,
                   openable, peerClosed, opens,
                   writers, startCalls, pcMain, proc, isRunning, messages,
                   nSinks, nWorkers, poolVars, readerVars, drainVars, histRing,
                   histOut>>

\* environment: the file appears, the server starts listening, the
\* SOME/IP service is offered
SourceAppears(k) ==
    /\ proc = "running" /\ k \in srcs
    /\ ~openable[k]
    /\ openable' = [openable EXCEPT ![k] = TRUE]
    /\ UNCHANGED <<cfg, sinkMode, lockVars, unitVars, fileVars, sockHist, someipVars, fileHist, srcThreads, srcs,
                   pending, fed, peerClosed,
                   opens, writers, startCalls, pcMain, proc, isRunning, messages,
                   nSinks, nWorkers, poolVars, readerVars, drainVars, histRing,
                   histOut>>

\* environment: the peer of the connected socket closes the connection
PeerCloses ==
    /\ proc = "running" /\ isOpen["socket"]
    /\ ~peerClosed
    /\ peerClosed' = TRUE
    /\ UNCHANGED <<cfg, sinkMode, lockVars, unitVars, fileVars, sockHist, someipVars, fileHist, srcThreads, srcs,
                   openable, pending, fed,
                   opens, writers, startCalls, pcMain, proc, isRunning, messages,
                   nSinks, nWorkers, poolVars, readerVars, drainVars, histRing,
                   histOut>>

SourceNext ==
    \/ Construct
    \/ AppStart
    \/ JoinSourceThreads
    \/ JoinWriter
    \/ Destroy
    \/ JoinWorkers
    \/ SignalHandler
    \/ ProcessExit
    \/ WriterLoop
    \/ WritePop(WriterId)
    \/ WriterBack
    \/ \E d \in DrainerIds : WorkerLoop(d)
    \/ FileOpenSource
    \/ SomeIPOpenSource
    \/ SocketOpenSource
    \/ \E k \in Kinds : ReaderTest(k)
    \/ \E k \in Kinds : ReadSource(k)
    \/ \E k \in Kinds : SourceFeeds(k)
    \/ \E k \in Kinds : SourceAppears(k)
    \/ PeerCloses

SourceSpec == SourceInit /\ [][SourceNext]_vars

(* ---------------- the mutexes ---------------- *)
\* LogManager::log called by NumProducers threads while the pool workers
\* run worker_loop and LogManager::write, with RingBuffer::mtx and
\* ThreadPool::queue_mutex taken and released where the code takes and
\* releases them.  A sink write lasts as long as the sink likes.
LockInit ==
    /\ cfg \in [buffer_capacity : CfgValues, thread_pool_size : CfgValues,
                sinks : {1}]
    /\ sinkMode = GoodSinks
    /\ NoSources
    /\ NoFiles
    /\ NoUnits
    /\ messages = RingBufferCtor(0)
    /\ InitCommon

\* what the lock actions leave alone
lockFrame == <<cfg, sinkMode, srcVars, unitVars, fileVars, pcMain, proc, isRunning, nSinks,
               nWorkers, stop_flag, rpc, rcur, wpc, dsink, raced, histRing,
               histOut>>

\* log(): tryPush is entered, std::lock_guard lock(mtx)
TryPushEnter(p) ==
    /\ pcMain = "constructed" /\ lpc[p] = "idle"
    /\ produced[p] < MaxMsgs
    /\ mtx = Free
    /\ mtx' = LogHolder(p)
    /\ lpc' = [lpc EXCEPT ![p] = "pushLocked"]
    /\ UNCHANGED <<lockFrame, queue_mutex, messages, tasks, produced, dpc, dmsg>>

\* log(): the body of tryPush, the lock_guard is destroyed at return; the
\* "buffer full" line is printed after that
TryPushLeave(p) ==
    /\ lpc[p] = "pushLocked"
    /\ messages' = tryPush(messages, [src |-> p, seq |-> produced[p] + 1]).rb
    /\ produced' = [produced EXCEPT ![p] = @ + 1]
    /\ mtx' = Free
    /\ lpc' = [lpc EXCEPT ![p] = "task"]
    /\ UNCHANGED <<lockFrame, queue_mutex, tasks, dpc, dmsg>>

\* push_task: std::lock_guard lock(queue_mutex)
PushTaskEnter(p) ==
    /\ lpc[p] = "task"
    /\ queue_mutex = Free
    /\ queue_mutex' = LogHolder(p)
    /\ lpc' = [lpc EXCEPT ![p] = "taskLocked"]
    /\ UNCHANGED <<lockFrame, mtx, messages, tasks, produced, dpc, dmsg>>

\* push_task: tasks.push, the block ends, condition.notify_one()
PushTaskLeave(p) ==
    /\ lpc[p] = "taskLocked"
    /\ tasks' = tasks + 1
    /\ queue_mutex' = Free
    /\ lpc' = [lpc EXCEPT ![p] = "idle"]
    /\ UNCHANGED <<lockFrame, mtx, messages, produced, dpc, dmsg>>

\* worker_loop: condition.wait(lock, pred) returns holding queue_mutex
\* (a wait whose predicate is false gives the mutex back)
WorkerWake(d) ==
    /\ d \in 1..nWorkers /\ dpc[d] = "idle"
    /\ tasks > 0
    /\ queue_mutex = Free
    /\ queue_mutex' = DrainHolder(d)
    /\ dpc' = [dpc EXCEPT ![d] = "qLocked"]
    /\ UNCHANGED <<lockFrame, lpc, mtx, messages, tasks, produced, dmsg>>

\* worker_loop: task = std::move(tasks.front()); tasks.pop(); the block
\* ends; task() is write()
WorkerTake(d) ==
    /\ dpc[d] = "qLocked"
    /\ tasks' = tasks - 1
    /\ queue_mutex' = Free
    /\ dpc' = [dpc EXCEPT ![d] = "call"]
    /\ UNCHANGED <<lockFrame, lpc, mtx, messages, produced, dmsg>>

\* write(): trypop is entered, std::lock_guard lock(mtx)
TrypopEnter(d) ==
    /\ dpc[d] = "call"
    /\ mtx = Free
    /\ mtx' = DrainHolder(d)
    /\ dpc' = [dpc EXCEPT ![d] = "popLocked"]
    /\ UNCHANGED <<lockFrame, lpc, queue_mutex, messages, tasks, produced, dmsg>>

\* a trypop that returns with mtx still locked
TrypopKeepsLock(d) == DrainHolder(d)

\* holder of mtx once trypop has returned to drainer d: the lock_guard is
\* a local of trypop
TrypopUnlocks(d) == Free

\* write(): the body of trypop and its return; std::nullopt ends write()
TrypopLeave(d) ==
    /\ dpc[d] = "popLocked"
    /\ LET res == trypop(messages) IN
        /\ messages' = res.rb
        /\ dmsg' = [dmsg EXCEPT ![d] = res.item]
        /\ dpc' = [dpc EXCEPT ![d] = IF res.item = NoRecord THEN "idle" ELSE "sink"]
    /\ mtx' = TrypopUnlocks(d)
    /\ UNCHANGED <<lockFrame, lpc, queue_mutex, tasks, produced>>

\* write(): the loop over the sinks has written the record, however long
\* that took
SinksReturn(d) ==
    /\ dpc[d] = "sink"
    /\ dmsg' = [dmsg EXCEPT ![d] = NoRecord]
    /\ dpc' = [dpc EXCEPT ![d] = "call"]
    /\ UNCHANGED <<lockFrame, lpc, mtx, queue_mutex, messages, tasks, produced>>

LockNext ==
    \/ Construct
    \/ \E p \in Producers : TryPushEnter(p)
    \/ \E p \in Producers : TryPushLeave(p)
    \/ \E p \in Producers : PushTaskEnter(p)
    \/ \E p \in Producers : PushTaskLeave(p)
    \/ \E d \in DrainerIds : WorkerWake(d)
    \/ \E d \in DrainerIds : WorkerTake(d)
    \/ \E d \in DrainerIds : TrypopEnter(d)
    \/ \E d \in DrainerIds : TrypopLeave(d)
    \/ \E d \in DrainerIds : SinksReturn(d)

LockSpec == LockInit /\ [][LockNext]_vars

(* ---------------- the file sinks ---------------- *)
\* The constructor with setupSinks in detail, then records fanned out to
\* the attached sinks.  A file may hold lines from an earlier run and may
\* be impossible to open.
FileInit ==
    /\ fcfg \in [console : BOOLEAN, files : [Paths -> BOOLEAN]]
    /\ cfg = [buffer_capacity |-> 1, thread_pool_size |-> 1,
              sinks |-> Cardinality({f \in Paths : fcfg.files[f]})
                        + (IF fcfg.console THEN 1 ELSE 0)]
    /\ canOpen \in [Paths -> BOOLEAN]
    /\ disk \in [Paths -> OldContents]
    /\ disk0 = disk
    /\ sinkMode = GoodSinks
    /\ NoSources
    /\ NoUnits
    /\ messages = RingBufferCtor(0)
    /\ InitCommon

\* FileSinkImpl(filename) : file(std::ofstream(filename)).  The default
\* mode of std::ofstream is ios_base::out, which truncates an existing
\* file; a failed open leaves the stream with failbit set and the object
\* is constructed all the same
FileSinkCtor(f) == [kind |-> "file", path |-> f, open |-> canOpen[f]]

\* the file at path f after std::ofstream(f)
AfterOpen(f) == IF canOpen[f] THEN <<>> ELSE disk[f]

\* the sinks setupSinks pushes for the file entries f..MaxFiles, in order
RECURSIVE FileSinksFrom(_)
FileSinksFrom(f) ==
    IF f > MaxFiles THEN <<>>
    ELSE (IF fcfg.files[f] THEN <<FileSinkCtor(f)>> ELSE <<>>)
         \o FileSinksFrom(f + 1)

\* setupSinks: the console sink if enabled, then one FileSinkImpl per
\* enabled file entry with a non-empty path; nothing is tested, nothing
\* is reported
SetupSinks ==
    (IF fcfg.console THEN <<[kind |-> "console", path |-> 0, open |-> TRUE]>>
     ELSE <<>>) \o FileSinksFrom(1)

\* TelemetryLoggingApp::TelemetryLoggingApp: loadConfig, setupSinks, make
\* the LogManager, add_sink for every sink setupSinks made
ConstructSinks ==
    /\ MainRuns /\ pcMain = "new"
    /\ LET lm == AppMakeLogger(cfg) IN
        /\ messages' = lm.messages
        /\ nWorkers' = lm.workers
        /\ dpc' = [d \in DrainerIds |->
                     IF d >= 1 /\ d <= lm.workers THEN "idle" ELSE "none"]
    /\ attached' = SetupSinks
    /\ nSinks' = Len(SetupSinks)
    /\ disk' = [f \in Paths |-> IF fcfg.files[f] THEN AfterOpen(f) ELSE disk[f]]
    /\ sinkErrors' = sinkErrors
    /\ pcMain' = "constructed"
    /\ UNCHANGED <<cfg, sinkMode, srcVars, lockVars, unitVars, fcfg, canOpen, disk0,
                   written, proc, isRunning, poolVars, readerVars, wpc, dmsg,
                   dsink, raced, histRing, histOut>>

\* the file at path f after `file << message` on every attached sink: a
\* line is added by each FileSinkImpl on f whose stream is open
AfterWriteAll(f, m) ==
    IF \E i \in 1..Len(attached) :
            attached[i].kind = "file" /\ attached[i].path = f /\ attached[i].open
    THEN Append(disk[f], m)
    ELSE disk[f]

\* LogManager::write for one record: sink->write(record) on every sink
WriteRecord ==
    /\ ThreadsRun /\ pcMain = "constructed"
    /\ written < MaxMsgs
    /\ written' = written + 1
    /\ disk' = [f \in Paths |-> AfterWriteAll(f, [src |-> 1, seq |-> written + 1])]
    /\ UNCHANGED <<cfg, sinkMode, srcVars, lockVars, unitVars, fcfg, canOpen, disk0,
                   attached, sinkErrors, pcMain, proc, isRunning, nSinks,
                   nWorkers, messages, poolVars, readerVars, drainVars,
                   histRing, histOut>>

FileNext ==
    \/ ConstructSinks
    \/ WriteRecord

FileSpec == FileInit /\ [][FileNext]_vars

\* everything the pipeline owns; the parts below leave it alone
pipeVars == <<cfg, sinkMode, srcVars, lockVars, fileVars, pcMain, proc,
              isRunning, nSinks, nWorkers, messages, poolVars, readerVars,
              drainVars, histRing, histOut>>

(* ---------------- Formatter<Policy> and the policy dispatch ---------------- *)
\* The body of a reader loop after readSource(raw) returned true: the
\* dispatch on the configured policy string, Formatter<Policy>::format and
\* the call of LogManager::log.  A raw line is a sequence of characters.
\* A float is carried as a count of hundredths (digits beyond the second
\* decimal are cut, which leaves every comparison with a threshold that
\* has at most two decimals as it is) or as NaN.  Lines of MaxRaw
\* characters stay far below FLT_MAX, so std::out_of_range does not occur.

\* longest raw line tried
MaxRaw == 3

\* digits, the radix point, a blank, a sign, letters
RawChars == {"1", "7", ".", " ", "-", "a", "N"}
RawLines == UNION {[1..n -> RawChars] : n \in 0..MaxRaw}

\* spellings of the "policy" value tried
PolicyNames == {"cpu", "Cpu", "CPU", "ram", "Ram", "RAM", "gpu", "Gpu", "GPU"}

\* a float that is a number, in hundredths, and the float NaN
Num(x) == [nan |-> FALSE, x |-> x]
NaN == [nan |-> TRUE, x |-> 0]

\* a comparison that leaves equal operands out
GeqStrict(a, b) == ~a.nan /\ ~b.nan /\ a.x > b.x

\* operator>= of float: false whenever an operand is NaN
Geq(a, b) == ~a.nan /\ ~b.nan /\ a.x >= b.x

\* operator<= of float: false whenever an operand is NaN
Leq(a, b) == ~a.nan /\ ~b.nan /\ a.x <= b.x

IsDigit(c) == c \in {"1", "7"}
DigitVal(c) == IF c = "1" THEN 1 ELSE 7

\* strtof skips leading white space
RECURSIVE SkipSpace(_)
SkipSpace(s) ==
    IF s # <<>> /\ Head(s) = " " THEN SkipSpace(Tail(s)) ELSE s

\* the longest run of digits s begins with
RECURSIVE DigitPrefix(_)
DigitPrefix(s) ==
    IF s # <<>> /\ IsDigit(Head(s))
    THEN <<Head(s)>> \o DigitPrefix(Tail(s))
    ELSE <<>>

\* the number a run of digits denotes
RECURSIVE Decimal(_)
Decimal(d) ==
    IF d = <<>> THEN 0
    ELSE 10 * Decimal(SubSeq(d, 1, Len(d) - 1)) + DigitVal(d[Len(d)])

\* hundredths denoted by the digits after the radix point
Hundredths(f) ==
    IF Len(f) = 0 THEN 0
    ELSE IF Len(f) = 1 THEN 10 * DigitVal(f[1])
    ELSE 10 * DigitVal(f[1]) + DigitVal(f[2])

\* strtof matches "nan" in any letter case
LowerCase(c) == IF c = "N" THEN "n" ELSE c
StartsNan(s) ==
    /\ Len(s) >= 3
    /\ LowerCase(s[1]) = "n" /\ LowerCase(s[2]) = "a" /\ LowerCase(s[3]) = "n"

\* std::stof(raw_value): white space is skipped, then the longest prefix
\* that is a sign followed by "nan" or by digits with at most one radix
\* point is converted and what follows it is ignored; with no such prefix
\* std::invalid_argument is thrown (ok = FALSE)
Stof(s) ==
    LET t == SkipSpace(s)
        neg == t # <<>> /\ Head(t) = "-"
        u == IF neg THEN Tail(t) ELSE t
        ip == DigitPrefix(u)
        rest == SubSeq(u, Len(ip) + 1, Len(u))
        fp == IF rest # <<>> /\ Head(rest) = "."
              THEN DigitPrefix(Tail(rest)) ELSE <<>>
        mag == 100 * Decimal(ip) + Hundredths(fp)
    IN  IF StartsNan(u) THEN [ok |-> TRUE, value |-> NaN]
        ELSE IF Len(ip) + Len(fp) = 0 THEN [ok |-> FALSE, value |-> NaN]
        ELSE [ok |-> TRUE, value |-> Num(IF neg THEN 0 - mag ELSE mag)]

\* RAM_policy::Warning = 75.5f and RAM_policy::Critical = 90.0f
RAM_Warning == 7550
RAM_Critical == 9000

\* a comparison chain that tests the two thresholds the wrong way round
inferSeverityBelow(value) ==
    IF Leq(value, Num(RAM_Critical)) THEN "Critical"
    ELSE IF Leq(value, Num(RAM_Warning)) THEN "Warning"
    ELSE "Info"

\* RAM_policy::inferSeverity(float value)
inferSeverity(value) ==
    IF Geq(value, Num(RAM_Critical)) THEN "Critical"
    ELSE IF Geq(value, Num(RAM_Warning)) THEN "Warning"
    ELSE "Info"

\* Policy::inferSeverity for the policy whose context is ctx.  The headers
\* policy/CPU_policy.hpp and policy/GPU_policy.hpp are not among the
\* sources, so the level of their records is left open.
PolicySeverity(ctx, value) ==
    IF ctx = "RAM" THEN inferSeverity(value) ELSE "open"

\* valueDescription(value, sev): the label chosen by the switch, the value
\* and the unit
valueDescription(value, sev) ==
    [label |-> IF sev = "Critical" THEN "Critical: "
               ELSE IF sev = "Warning" THEN "Warning: "
               ELSE "Normal: ",
     value |-> value, unit |-> "%"]

\* Formatter<Policy>::format(raw_value): std::nullopt is <<>>, a LogMessage
\* m is <<m>>.  The time stamp is left out.
Format(ctx, raw_value) ==
    LET parsed == Stof(raw_value)
        sev == PolicySeverity(ctx, parsed.value)
    IN  IF ~parsed.ok THEN <<>>
        ELSE <<[app_name |-> ctx, context |-> ctx,
                message |-> valueDescription(parsed.value, sev),
                level |-> sev]>>

\* if (policy == "cpu") ... else if (policy == "ram") ... else if
\* (policy == "gpu") ...; with no branch taken msg stays std::nullopt
Dispatch(p, raw_value) ==
    IF p = "cpu" THEN Format("CPU", raw_value)
    ELSE IF p = "ram" THEN Format("RAM", raw_value)
    ELSE IF p = "gpu" THEN Format("GPU", raw_value)
    ELSE <<>>

FormatInit ==
    /\ cfg = [buffer_capacity |-> 1, thread_pool_size |-> 1, sinks |-> 1]
    /\ sinkMode = GoodSinks
    /\ NoSources
    /\ NoFiles
    /\ messages = RingBufferCtor(0)
    /\ InitCommon
    /\ NoSeverity
    /\ NoRender
    /\ NoDescriptors
    /\ NoReadLine
    /\ NoWriteCalls
    /\ policy \in PolicyNames
    /\ fpc = "read"
    /\ raw = <<>>
    /\ msg = <<>>
    /\ handed = <<>>

\* source->readSource(raw) returns true with a line in raw
ReadLine ==
    /\ fpc = "read"
    /\ raw' \in RawLines
    /\ msg' = <<>>
    /\ handed' = <<>>
    /\ fpc' = "format"
    /\ UNCHANGED <<pipeVars, rlVars, held, sevVars, renderVars, raiiVars, policy>>

\* the dispatch, then if (msg.has_value()) logger->log(msg.value())
FormatLine ==
    /\ fpc = "format"
    /\ msg' = Dispatch(policy, raw)
    /\ handed' = msg'
    /\ fpc' = "sleep"
    /\ UNCHANGED <<pipeVars, rlVars, held, sevVars, renderVars, raiiVars, policy, raw>>

\* sleep_for(rate), then the loop test
SleepTick ==
    /\ fpc = "sleep"
    /\ fpc' = "read"
    /\ UNCHANGED <<pipeVars, rlVars, held, sevVars, renderVars, raiiVars, policy, raw, msg, handed>>

FormatNext ==
    \/ ReadLine
    \/ FormatLine
    \/ SleepTick

FormatSpec == FormatInit /\ [][FormatNext]_vars

(* ---------------- Policy::inferSeverity ---------------- *)
\* RAM_policy::inferSeverity called on two floats, one call after the
\* other.

\* floats tried: around the two thresholds, far from them, negative, NaN
SevValues ==
    {Num(x) : x \in {0 - 100, 0, RAM_Warning - 1, RAM_Warning,
                     RAM_Warning + 1, RAM_Critical - 1, RAM_Critical,
                     RAM_Critical + 1, 10000}} \cup {NaN}

SevInit ==
    /\ cfg = [buffer_capacity |-> 1, thread_pool_size |-> 1, sinks |-> 1]
    /\ sinkMode = GoodSinks
    /\ NoSources
    /\ NoFiles
    /\ messages = RingBufferCtor(0)
    /\ InitCommon
    /\ NoFormat
    /\ NoRender
    /\ NoDescriptors
    /\ NoReadLine
    /\ NoWriteCalls
    /\ sval \in [1..2 -> SevValues]
    /\ slevel = [i \in 1..2 |-> "none"]

\* sev = Policy::inferSeverity(value) for the i-th float
InferSeverity(i) ==
    /\ slevel[i] = "none"
    /\ slevel' = [slevel EXCEPT ![i] = inferSeverity(sval[i])]
    /\ UNCHANGED <<pipeVars, rlVars, held, fmtVars, renderVars, raiiVars, sval>>

SevNext == \E i \in 1..2 : InferSeverity(i)

SevSpec == SevInit /\ [][SevNext]_vars

(* ---------------- operator<<(std::ostream&, const LogMessage&) ---------------- *)
\* Two LogMessages, each written to a stream of its own.  A string is a
\* sequence of characters; "x" stands for a character other than a
\* bracket or a blank, and the name of a severity_level counts as one
\* such character.

\* values tried for the std::string members app_name, time, context and
\* message: plain, holding "] [", a closing bracket, a blank and an
\* opening bracket
FieldValues ==
    {<<"x">>, <<"x", "]", " ", "[", "x">>, <<"]">>, <<" ", "[">>}

\* magic_enum::enum_name(msg.level)
LevelNames == {<<"Info">>, <<"Warning">>, <<"Critical">>}

LogMessages ==
    [app_name : FieldValues, time : FieldValues, context : FieldValues,
     level : LevelNames, message : FieldValues]

\* os << "[" << app_name << "] " << "[" << time << "] " << "[" << context
\*    << "] " << "[" << enum_name(level) << "] " << "[" << message << "]"
\*    << std::endl
Render(m) ==
    <<"[">> \o m.app_name \o <<"]", " ">>
    \o <<"[">> \o m.time \o <<"]", " ">>
    \o <<"[">> \o m.context \o <<"]", " ">>
    \o <<"[">> \o m.level \o <<"]", " ">>
    \o <<"[">> \o m.message \o <<"]">>
    \o <<"\n">>

RenderInit ==
    /\ cfg = [buffer_capacity |-> 1, thread_pool_size |-> 1, sinks |-> 1]
    /\ sinkMode = GoodSinks
    /\ NoSources
    /\ NoFiles
    /\ messages = RingBufferCtor(0)
    /\ InitCommon
    /\ NoFormat
    /\ NoSeverity
    /\ NoDescriptors
    /\ NoReadLine
    /\ NoWriteCalls
    /\ lmsg \in [1..2 -> LogMessages]
    /\ os = [i \in 1..2 |-> <<>>]

\* stream i << lmsg[i]
RenderMsg(i) ==
    /\ os[i] = <<>>
    /\ os' = [os EXCEPT ![i] = @ \o Render(lmsg[i])]
    /\ UNCHANGED <<pipeVars, rlVars, held, fmtVars, sevVars, raiiVars, lmsg>>

RenderNext == \E i \in 1..2 : RenderMsg(i)

RenderSpec == RenderInit /\ [][RenderNext]_vars

(* ---------------- SafeFile and SafeSocket ---------------- *)
\* Objects of one of the two classes are constructed, move-constructed,
\* move-assigned (an object to itself included) and destroyed in any
\* order.  A descriptor is named by the rank of the open() or socket()
\* call that returned it, so that two opens never give the same name.

\* objects followed
MaxObjs == 3
\* open() / socket() calls that return a descriptor
MaxFds == 2

Objs == 1..MaxObjs
Fds == 1..MaxFds

RaiiInit ==
    /\ cfg = [buffer_capacity |-> 1, thread_pool_size |-> 1, sinks |-> 1]
    /\ sinkMode = GoodSinks
    /\ NoSources
    /\ NoFiles
    /\ messages = RingBufferCtor(0)
    /\ InitCommon
    /\ NoFormat
    /\ NoSeverity
    /\ NoRender
    /\ NoReadLine
    /\ NoWriteCalls
    /\ rclass \in {"SafeFile", "SafeSocket"}
    /\ life = [o \in Objs |-> "none"]
    /\ fd = [o \in Objs |-> 0 - 1]
    /\ opened = 0
    /\ closes = [d \in Fds |-> 0]
    /\ movedFrom = {}

raiiFrame == <<pipeVars, fmtVars, sevVars, renderVars, rlVars, held, rclass>>

\* ::close(d)
Close(c, d) == [c EXCEPT ![d] = @ + 1]

\* `if (fd != -1) ::close(fd);` of the destructor and of move assignment
CloseIfOpen(c, d) == IF d # 0 - 1 THEN Close(c, d) ELSE c

\* a move that leaves the descriptor in the source as well
MovedFromKeeps(d) == d

\* other.fd = -1 / other.sockfd = -1
MovedFrom(d) == 0 - 1

\* SafeFile(path) and SafeSocket(ip, port) when open() / socket() and
\* connect() succeed
ConstructOpen(o) ==
    /\ life[o] = "none"
    /\ opened < MaxFds
    /\ opened' = opened + 1
    /\ fd' = [fd EXCEPT ![o] = opened + 1]
    /\ life' = [life EXCEPT ![o] = "live"]
    /\ UNCHANGED <<raiiFrame, closes, movedFrom>>

\* SafeFile(path) when open() fails: the error is printed and the object
\* lives on with fd = -1
FileConstructFails(o) ==
    /\ rclass = "SafeFile"
    /\ life[o] = "none"
    /\ life' = [life EXCEPT ![o] = "live"]
    /\ UNCHANGED <<raiiFrame, fd, opened, closes, movedFrom>>

\* SafeSocket(ip, port) when socket() fails (got = FALSE) or connect()
\* fails (got = TRUE): the constructor throws, after ::close(sockfd) in
\* the second case, and no object comes to exist
SocketConstructThrows(o, got) ==
    /\ rclass = "SafeSocket"
    /\ life[o] = "none"
    /\ IF got
       THEN /\ opened < MaxFds
            /\ opened' = opened + 1
            /\ closes' = Close(closes, opened + 1)
       ELSE UNCHANGED <<opened, closes>>
    /\ life' = [life EXCEPT ![o] = "dead"]
    /\ UNCHANGED <<raiiFrame, fd, movedFrom>>

\* the move constructor: the new object o takes other's descriptor
MoveConstruct(o, other) ==
    /\ life[o] = "none" /\ life[other] = "live"
    /\ fd' = [fd EXCEPT ![o] = fd[other], ![other] = MovedFrom(fd[other])]
    /\ life' = [life EXCEPT ![o] = "live"]
    /\ movedFrom' = movedFrom \cup {other}
    /\ UNCHANGED <<raiiFrame, opened, closes>>

\* operator=(T&& other): nothing when this == &other; otherwise the own
\* descriptor is closed if there is one and other's is taken
MoveAssign(o, other) ==
    /\ life[o] = "live" /\ life[other] = "live"
    /\ IF o # other
       THEN /\ closes' = CloseIfOpen(closes, fd[o])
            /\ fd' = [fd EXCEPT ![o] = fd[other],
                                ![other] = MovedFrom(fd[other])]
            /\ movedFrom' = (movedFrom \ {o}) \cup {other}
       ELSE UNCHANGED <<closes, fd, movedFrom>>
    /\ UNCHANGED <<raiiFrame, life, opened>>

\* the destructor
Destruct(o) ==
    /\ life[o] = "live"
    /\ closes' = CloseIfOpen(closes, fd[o])
    /\ life' = [life EXCEPT ![o] = "dead"]
    /\ UNCHANGED <<raiiFrame, fd, opened, movedFrom>>

RaiiNext ==
    \/ \E o \in Objs : ConstructOpen(o)
    \/ \E o \in Objs : FileConstructFails(o)
    \/ \E o \in Objs, got \in BOOLEAN : SocketConstructThrows(o, got)
    \/ \E o, other \in Objs : MoveConstruct(o, other)
    \/ \E o, other \in Objs : MoveAssign(o, other)
    \/ \E o \in Objs : Destruct(o)

RaiiSpec == RaiiInit /\ [][RaiiNext]_vars

(* ---------------- tryPush and trypop statement by statement ---------------- *)
\* A RingBuffer of capacity 1 on which NumProducers threads call tryPush
\* (MaxMsgs records each) while two threads call trypop again and again.
\* Every statement of the two bodies is a step of its own, and the
\* lock_guard on RingBuffer::mtx is taken at entry and dropped at return.

\* bits of the unsigned word that stands for size_t: --count on 0 wraps
\* around to the largest value
SizeBits == 4
SizeRange == 2 ^ SizeBits

\* threads calling trypop
Poppers == {WriterId, WriterId + 1}

AtomInit ==
    /\ cfg = [buffer_capacity |-> 1, thread_pool_size |-> 1, sinks |-> 1]
    /\ sinkMode = GoodSinks
    /\ NoSources
    /\ NoFiles
    /\ NoUnits
    /\ messages = RingBufferCtor(1)
    /\ InitCommon

\* what the statements of tryPush and trypop leave alone
atomFrame == <<cfg, sinkMode, srcVars, unitVars, fileVars, queue_mutex,
               pcMain, isRunning, nSinks, nWorkers, poolVars, rpc, rcur,
               wpc, dsink, raced, latePushed, histOut>>

\* a lock_guard that does not wait for the mutex
LockAdmitsAll(m) == TRUE

\* std::lock_guard<std::mutex> lock(mtx) returns once mtx is free
LockAdmits(m) == m = Free

\* the record thread p is pushing
ItemOf(p) == [src |-> p, seq |-> produced[p] + 1]

\* tryPush: std::lock_guard lock(mtx)
PushLock(p) ==
    /\ proc = "running" /\ lpc[p] = "idle"
    /\ produced[p] < MaxMsgs
    /\ LockAdmits(mtx)
    /\ mtx' = LogHolder(p)
    /\ lpc' = [lpc EXCEPT ![p] = "test"]
    /\ UNCHANGED <<atomFrame, proc, messages, produced, dpc, dmsg, pushed,
                   rejected, popped>>

\* tryPush: if (count == capacity) return false;
PushTest(p) ==
    /\ proc = "running" /\ lpc[p] = "test"
    /\ IF messages.count = messages.capacity
       THEN /\ rejected' = rejected \cup {ItemOf(p)}
            /\ produced' = [produced EXCEPT ![p] = @ + 1]
            /\ mtx' = Free
            /\ lpc' = [lpc EXCEPT ![p] = "idle"]
       ELSE /\ lpc' = [lpc EXCEPT ![p] = "store"]
            /\ UNCHANGED <<rejected, produced, mtx>>
    /\ UNCHANGED <<atomFrame, proc, messages, dpc, dmsg, pushed, popped>>

\* tryPush: buffer[write_index] = item;
PushStore(p) ==
    /\ proc = "running" /\ lpc[p] = "store"
    /\ messages' = [messages EXCEPT !.buffer[messages.write_index] = ItemOf(p)]
    /\ lpc' = [lpc EXCEPT ![p] = "advance"]
    /\ UNCHANGED <<atomFrame, proc, mtx, produced, dpc, dmsg, pushed,
                   rejected, popped>>

\* tryPush: write_index = (write_index + 1) % capacity;
PushAdvance(p) ==
    /\ proc = "running" /\ lpc[p] = "advance"
    /\ messages' = [messages EXCEPT
                        !.write_index = Advance(@, messages.capacity)]
    /\ lpc' = [lpc EXCEPT ![p] = "count"]
    /\ UNCHANGED <<atomFrame, proc, mtx, produced, dpc, dmsg, pushed,
                   rejected, popped>>

\* tryPush: ++count;
PushCount(p) ==
    /\ proc = "running" /\ lpc[p] = "count"
    /\ messages' = [messages EXCEPT !.count = (@ + 1) % SizeRange]
    /\ lpc' = [lpc EXCEPT ![p] = "return"]
    /\ UNCHANGED <<atomFrame, proc, mtx, produced, dpc, dmsg, pushed,
                   rejected, popped>>

\* tryPush: cv.notify_one(); return true; (the lock_guard is destroyed)
PushReturn(p) ==
    /\ proc = "running" /\ lpc[p] = "return"
    /\ pushed' = Append(pushed, ItemOf(p))
    /\ produced' = [produced EXCEPT ![p] = @ + 1]
    /\ mtx' = Free
    /\ lpc' = [lpc EXCEPT ![p] = "idle"]
    /\ UNCHANGED <<atomFrame, proc, messages, dpc, dmsg, rejected, popped>>

\* trypop: std::lock_guard lock(mtx)
PopLock(d) ==
    /\ proc = "running" /\ dpc[d] = "none"
    /\ LockAdmits(mtx)
    /\ mtx' = DrainHolder(d)
    /\ dpc' = [dpc EXCEPT ![d] = "test"]
    /\ UNCHANGED <<atomFrame, proc, messages, produced, lpc, dmsg, pushed,
                   rejected, popped>>

\* trypop: if (count == 0) return std::nullopt;
PopTest(d) ==
    /\ proc = "running" /\ dpc[d] = "test"
    /\ IF messages.count = 0
       THEN /\ mtx' = Free
            /\ dpc' = [dpc EXCEPT ![d] = "none"]
       ELSE /\ dpc' = [dpc EXCEPT ![d] = "load"]
            /\ UNCHANGED mtx
    /\ UNCHANGED <<atomFrame, proc, messages, produced, lpc, dmsg, pushed,
                   rejected, popped>>

\* trypop: T item = buffer[read_index].value(); on an empty slot value()
\* throws std::bad_optional_access, which nothing catches
PopLoad(d) ==
    /\ proc = "running" /\ dpc[d] = "load"
    /\ IF messages.buffer[messages.read_index] = NoRecord
       THEN /\ proc' = "aborted"
            /\ UNCHANGED <<dmsg, dpc>>
       ELSE /\ dmsg' = [dmsg EXCEPT ![d] = messages.buffer[messages.read_index]]
            /\ dpc' = [dpc EXCEPT ![d] = "reset"]
            /\ UNCHANGED proc
    /\ UNCHANGED <<atomFrame, mtx, messages, produced, lpc, pushed, rejected,
                   popped>>

\* trypop: buffer[read_index].reset();
PopReset(d) ==
    /\ proc = "running" /\ dpc[d] = "reset"
    /\ messages' = [messages EXCEPT !.buffer[messages.read_index] = NoRecord]
    /\ dpc' = [dpc EXCEPT ![d] = "advance"]
    /\ UNCHANGED <<atomFrame, proc, mtx, produced, lpc, dmsg, pushed,
                   rejected, popped>>

\* trypop: read_index = (read_index + 1) % capacity;
PopAdvance(d) ==
    /\ proc = "running" /\ dpc[d] = "advance"
    /\ messages' = [messages EXCEPT
                        !.read_index = Advance(@, messages.capacity)]
    /\ dpc' = [dpc EXCEPT ![d] = "count"]
    /\ UNCHANGED <<atomFrame, proc, mtx, produced, lpc, dmsg, pushed,
                   rejected, popped>>

\* trypop: --count;
PopCount(d) ==
    /\ proc = "running" /\ dpc[d] = "count"
    /\ messages' = [messages EXCEPT
                        !.count = (@ + SizeRange - 1) % SizeRange]
    /\ dpc' = [dpc EXCEPT ![d] = "return"]
    /\ UNCHANGED <<atomFrame, proc, mtx, produced, lpc, dmsg, pushed,
                   rejected, popped>>

\* trypop: return item; (the lock_guard is destroyed)
PopReturn(d) ==
    /\ proc = "running" /\ dpc[d] = "return"
    /\ popped' = Append(popped, dmsg[d])
    /\ dmsg' = [dmsg EXCEPT ![d] = NoRecord]
    /\ mtx' = Free
    /\ dpc' = [dpc EXCEPT ![d] = "none"]
    /\ UNCHANGED <<atomFrame, proc, messages, produced, lpc, pushed, rejected>>

AtomNext ==
    \/ \E p \in Producers : PushLock(p)
    \/ \E p \in Producers : PushTest(p)
    \/ \E p \in Producers : PushStore(p)
    \/ \E p \in Producers : PushAdvance(p)
    \/ \E p \in Producers : PushCount(p)
    \/ \E p \in Producers : PushReturn(p)
    \/ \E d \in Poppers : PopLock(d)
    \/ \E d \in Poppers : PopTest(d)
    \/ \E d \in Poppers : PopLoad(d)
    \/ \E d \in Poppers : PopReset(d)
    \/ \E d \in Poppers : PopAdvance(d)
    \/ \E d \in Poppers : PopCount(d)
    \/ \E d \in Poppers : PopReturn(d)

AtomSpec == AtomInit /\ [][AtomNext]_vars

(* ---------------- SafeFile::readLine ---------------- *)
\* One SafeFile and a caller that calls readLine again and again with the
\* same string.  The file is a sequence of characters that does not change
\* while it is read; each step inside the loop is one ::read(fd, &ch, 1),
\* which yields a character, end of file, EINTR or a real error.

\* longest file tried
MaxFile == 3
\* readLine calls tried
MaxCalls == 4
\* failing ::read calls tried, of each kind
MaxFaults == 1

FileChars == {"a", "b", "\n"}
FileContents == UNION {[1..n -> FileChars] : n \in 0..MaxFile}

ReadLineInit ==
    /\ cfg = [buffer_capacity |-> 1, thread_pool_size |-> 1, sinks |-> 1]
    /\ sinkMode = GoodSinks
    /\ NoSources
    /\ NoFiles
    /\ messages = RingBufferCtor(0)
    /\ InitCommon
    /\ NoFormat
    /\ NoSeverity
    /\ NoRender
    /\ NoDescriptors
    /\ NoWriteCalls
    /\ rfile \in FileContents
    /\ rfd \in {0 - 1, 3}
    /\ roff = 0
    /\ rout \in {<<>>, <<"a">>}
    /\ rlpc = "idle"
    /\ rcalls = <<>>
    /\ rerr = 0
    /\ rintr = 0

rlFrame == <<pipeVars, fmtVars, sevVars, renderVars, raiiVars, held, rfile, rfd>>

\* readLine returns ok to the caller, who finds `out` as it is now
Return(ok, o, fault) ==
    /\ rcalls' = Append(rcalls, [ok |-> ok, out |-> o, fault |-> fault])
    /\ rlpc' = "idle"

\* a return at end of file that reports nothing read whatever `out` holds
AtEofNever(o) == FALSE

\* `return !out.empty()` at end of file
AtEof(o) == o # <<>>

\* readLine(out) up to the loop: out.clear(); if (fd == -1) return false
ReadLineCall ==
    /\ rlpc = "idle" /\ Len(rcalls) < MaxCalls
    /\ rout' = <<>>
    /\ IF rfd = 0 - 1
       THEN Return(FALSE, <<>>, FALSE)
       ELSE rlpc' = "loop" /\ UNCHANGED rcalls
    /\ UNCHANGED <<rlFrame, roff, rerr, rintr>>

\* ::read returns 0 at end of file and 1 with the next character otherwise:
\* '\n' ends the line, any other character is pushed onto out
ReadChar ==
    /\ rlpc = "loop"
    /\ IF roff = Len(rfile)
       THEN /\ Return(AtEof(rout), rout, FALSE)
            /\ UNCHANGED <<roff, rout>>
       ELSE /\ roff' = roff + 1
            /\ IF rfile[roff + 1] = "\n"
               THEN Return(TRUE, rout, FALSE) /\ UNCHANGED rout
               ELSE rout' = Append(rout, rfile[roff + 1])
                    /\ UNCHANGED <<rlpc, rcalls>>
    /\ UNCHANGED <<rlFrame, rerr, rintr>>

\* ::read returns -1 with errno == EINTR: continue
ReadEintr ==
    /\ rlpc = "loop" /\ rintr < MaxFaults
    /\ rintr' = rintr + 1
    /\ UNCHANGED <<rlFrame, roff, rout, rlpc, rcalls, rerr>>

\* ::read returns -1 with another errno: return false
ReadError ==
    /\ rlpc = "loop" /\ rerr < MaxFaults
    /\ rerr' = rerr + 1
    /\ Return(FALSE, rout, TRUE)
    /\ UNCHANGED <<rlFrame, roff, rout, rintr>>

ReadLineNext ==
    \/ ReadLineCall
    \/ ReadChar
    \/ ReadEintr
    \/ ReadError

ReadLineSpec == ReadLineInit /\ [][ReadLineNext]_vars

(* ---------------- LogManager used directly ---------------- *)
\* A LogManager that its owner fills and drains by hand, as main() of
\* Phases/main.cpp does: add_sink, then pushes, then write().  write() is
\* public and the application calls it from the writer thread and from
\* every pool worker, so here it is called by WriteCallers threads.  No
\* push is made while a call of write() is under way.

\* threads that call write()
WriteCallers == 1..2

DrainInit ==
    /\ cfg = [buffer_capacity |-> 1, thread_pool_size |-> 1, sinks |-> 1]
    /\ sinkMode = GoodSinks
    /\ NoSources
    /\ NoFiles
    /\ NoFormat
    /\ NoSeverity
    /\ NoRender
    /\ NoDescriptors
    /\ NoReadLine
    /\ held = [d \in WriteCallers |-> <<>>]
    /\ messages = RingBufferCtor(MaxCap)
    /\ InitCommon

\* no thread is inside write()
NoWriteUnderWay == \A d \in WriteCallers : dpc[d] \in {"none", "idle"}

\* the records in the buffer, oldest first
Contents(rb) ==
    [i \in 1..rb.count |-> rb.buffer[(rb.read_index + i - 1) % rb.capacity]]

\* LogManager::add_sink, called before anything is logged
AddSink ==
    /\ nSinks < MaxSinks
    /\ pushed = <<>> /\ rejected = {} /\ NoWriteUnderWay
    /\ nSinks' = nSinks + 1
    /\ UNCHANGED <<cfg, sinkMode, srcVars, lockVars, unitVars, fileVars,
                   pcMain, proc, isRunning, nWorkers, messages, poolVars,
                   readerVars, drainVars, histRing, histOut>>

\* the owner p logs a record while no write() is under way: the tryPush
\* of LogManager::log; the task log() hands to the pool is one of the
\* later calls of write()
DrainPush(p) ==
    /\ NoWriteUnderWay
    /\ RingPush(p)

\* thread d calls write()
WriteCall(d) ==
    /\ dpc[d] \in {"none", "idle"}
    /\ dpc' = [dpc EXCEPT ![d] = "pop"]
    /\ held' = [held EXCEPT ![d] = Contents(messages)]
    /\ UNCHANGED <<cfg, sinkMode, srcVars, lockVars, fileVars, fmtVars,
                   sevVars, renderVars, raiiVars, rlVars, pcMain, proc,
                   isRunning, nSinks, nWorkers, messages, poolVars,
                   readerVars, wpc, dmsg, dsink, raced, histRing, histOut>>

DrainNext ==
    \/ AddSink
    \/ \E p \in Readers : DrainPush(p)
    \/ \E d \in WriteCallers : WriteCall(d)
    \/ \E d \in WriteCallers : WritePop(d)
    \/ \E d \in WriteCallers : SinkEnter(d)
    \/ \E d \in WriteCallers : SinkExit(d)

DrainSpec == DrainInit /\ [][DrainNext]_vars

(* ---------------- helpers of the properties ---------------- *)
Accepted == {pushed[i] : i \in 1..Len(pushed)}
Sinks == 1..nSinks

\* a drainer holds record m between its trypop and the last sink write
Holding(m) == {d \in DrainerIds : dpc[d] \in {"enter", "in"} /\ dmsg[d] = m}

\* the natural-number members of LogManager (ring buffer, pool) and of
\* TelemetryLoggingApp
Counters ==
    <<messages.capacity, messages.read_index, messages.write_index,
      messages.count, tasks, nWorkers, nSinks, cfg.buffer_capacity,
      cfg.thread_pool_size>>

\* the records of producer p in sequence q, in order
OfProducer(q, p) == SelectSeq(q, LAMBDA m : m.src = p)

IsPrefix(a, b) == Len(a) <= Len(b) /\ \A i \in 1..Len(a) : a[i] = b[i]

\* the records the buffer holds, oldest first
Held ==
    [k \in 1..messages.count |->
        messages.buffer[(messages.read_index + k - 1) % messages.capacity]]

RECURSIVE SumUpTo(_, _)
SumUpTo(f, n) == IF n = 0 THEN 0 ELSE f[n] + SumUpTo(f, n - 1)

\* tryPush calls completed in RingSpec
PushCalls == SumUpTo(produced, NumProducers)

(* ---------------- claims ---------------- *)

\* C1: once teardown has completed (isRunning false, reader and writer
\* threads joined, LogManager and its ThreadPool destroyed) the ring
\* buffer is empty and every record tryPush accepted has been written to
\* every attached sink (write() was called for it and returned), also a
\* record pushed after the writer thread's final write().
C1_ShutdownDrain ==
    pcMain = "destroyed" =>
        /\ messages.count = 0
        /\ latePushed \subseteq Accepted
        /\ \A m \in Accepted : \A s \in Sinks : m \in Completed(s)

C1_Witness ==
    /\ pcMain = "destroyed"
    /\ latePushed # {}
    /\ nSinks = MaxSinks
    /\ Len(pushed) >= 2

\* C2: when the process exits after SIGINT/SIGTERM, every record accepted
\* before the signal has been written to all sinks.
C2_SignalShutdownFlushes ==
    proc = "exited" =>
        \A i \in 1..Len(sigPushed) : \A s \in Sinks : sigPushed[i] \in Completed(s)

\* C3: if a reader pushes r1 then r2 and both are delivered to sink s,
\* write(r1) on s completes before write(r2) on s starts.
C3_PerSourceOrder ==
    \A s \in Sinks : \A r1, r2 \in Records :
        (/\ r1.src = r2.src /\ r1.seq < r2.seq
         /\ r1 \in Completed(s) /\ r2 \in Completed(s))
        => r1 \in startSnap[s][r2]

\* C4: no two threads are inside write() on the same sink at the same
\* time, and no record's line is damaged by another one.
C4_SinkWriteExclusive ==
    \A s \in Sinks :
        /\ Cardinality(InSink(s)) <= 1
        /\ \A i \in 1..Len(sinkOut[s]) : sinkOut[s][i].ok

\* C5: under every interleaving of tryPush and trypop, each producer's
\* records are popped in its push order with the values pushed (what was
\* popped followed by what is held is exactly what was accepted), and
\* calls completed = popped + held + rejected.
C5_BufferIntegrity ==
    /\ \A p \in Producers : IsPrefix(OfProducer(popped, p), OfProducer(pushed, p))
    /\ popped \o Held = pushed
    /\ PushCalls = Len(popped) + messages.count + Cardinality(rejected)

C5_Witness ==
    /\ rejected # {}
    /\ messages.capacity >= 2
    /\ Len(popped) >= 2
    /\ \E i, j \in 1..Len(popped) : popped[i].src # popped[j].src
    /\ messages.count >= 1
    /\ Len(pushed) > messages.capacity

\* C6: tryPush on a full buffer returns false and leaves slots, indices
\* and count unchanged; a slot holding an unpopped record only changes by
\* being popped.
C6_NoOverwrite ==
    [][/\ (messages.count = messages.capacity /\ produced' # produced)
            => (messages' = messages /\ pushed' = pushed
                /\ Cardinality(rejected') = Cardinality(rejected) + 1)
       /\ \A i \in DOMAIN messages.buffer :
            (messages.buffer[i] # NoRecord /\ messages'.buffer[i] # messages.buffer[i])
            => (/\ messages'.buffer[i] = NoRecord
                /\ i = messages.read_index
                /\ popped' = Append(popped, messages.buffer[i]))]_vars

C6_Witness ==
    /\ rejected # {}
    /\ messages.count = messages.capacity
    /\ Len(popped) >= 1

\* C7: every accepted record is written to each sink at most once and a
\* rejected record is never written to (or on its way to) any sink.
C7_AtMostOnceFanOut ==
    /\ \A s \in 1..MaxSinks : \A i, j \in 1..Len(sinkOut[s]) :
            i # j => sinkOut[s][i].rec # sinkOut[s][j].rec
    /\ \A s \in 1..MaxSinks : \A d \in DrainerIds :
            (dpc[d] \in {"enter", "in"} /\ dsink[d] = s) => dmsg[d] \notin Completed(s)
    /\ \A m \in Records : Cardinality(Holding(m)) <= 1
    /\ \A m \in rejected :
            /\ Holding(m) = {}
            /\ \A s \in 1..MaxSinks : m \notin Completed(s)

C7_Witness ==
    /\ rejected # {}
    /\ \E d1, d2 \in DrainerIds :
            d1 # d2 /\ dpc[d1] = "in" /\ dpc[d2] \in {"pop", "enter", "in"}
    /\ \E s \in Sinks : Len(sinkOut[s]) >= 1

\* C8: the ring buffer has capacity log_manager.buffer_capacity and the
\* pool has log_manager.thread_pool_size workers.
C8_ConstructionFromConfig ==
    pcMain \notin {"new", "gone"} =>
        /\ messages.capacity = cfg.buffer_capacity
        /\ nWorkers = cfg.thread_pool_size

\* C9: a record tryPush rejected gets exactly one "buffer full" line, its
\* push is not attempted again, and it never reaches a sink; an accepted
\* record gets no such line.
C9_OverflowHandling ==
    /\ \A m \in rejected :
        /\ diag[m] <= 1
        /\ proc # "exited" =>
              (diag[m] = 1 <=> ~(\E r \in Readers : rpc[r] = "diag" /\ rcur[r] = m))
        /\ \A r \in Readers : ~(rpc[r] = "push" /\ rcur[r] = m)
        /\ m \notin Accepted
        /\ \A i \in DOMAIN messages.buffer : messages.buffer[i] # m
        /\ \A i \in 1..Len(popped) : popped[i] # m
        /\ Holding(m) = {}
        /\ \A s \in 1..MaxSinks : m \notin Completed(s)
    /\ \A m \in Records \ rejected : diag[m] = 0

C9_Witness ==
    \E m \in rejected :
        /\ diag[m] = 1
        /\ \E s \in Sinks : Len(sinkOut[s]) >= 1
        /\ \A r \in Readers : rpc[r] = "loop"

\* C10: some counter kept by the pipeline equals the number of rejected
\* pushes before and after every step.
C10_DropCounter ==
    [][\E i \in DOMAIN Counters :
          /\ Counters[i] = Cardinality(rejected)
          /\ Counters[i]' = Cardinality(rejected')]_vars

\* C11: while the process has not been ended by a signal, every record
\* popped from the buffer has been written to every attached sink whose own
\* write() works, or a drainer is still carrying it through the sinks,
\* whatever the other sinks do on each call (fail silently or throw).
C11_SinkIsolation ==
    proc \in {"running", "aborted"} =>
        \A s \in Sinks : sinkMode[s] = "good" =>
            \A i \in 1..Len(popped) :
                popped[i] \in Completed(s) \/ Holding(popped[i]) # {}

\* C12: once isRunning is false, no reader thread sits in a read that only
\* the peer can end: every reader still alive can go on to test the flag
\* and exit, so the joins of start() terminate.
C12_ShutdownObserved ==
    \A k \in srcs : (~isRunning /\ spc[k] = "read") => ReadReturns(k)

\* C13: a failure inside a reader task (an open that fails) never ends the
\* process: no exception leaves a thread function.
C13_FaultIsolation ==
    \A k \in srcs : ~openable[k] => proc # "aborted"

\* C14: while the pipeline runs, a reader whose source did not open is
\* alive and on its way to the next openSource call: it has not returned
\* and it is not reading from the unopened source.
C14_OpenRetry ==
    \A k \in srcs :
        (proc = "running" /\ isRunning /\ opens[k] >= 1 /\ ~isOpen[k])
        => spc[k] \in {"test", "open"}

\* the pipeline state: 1 Configured, 2 Running, 3 ShuttingDown, 4 Stopped
Lifecycle ==
    IF pcMain \in {"new", "constructed"} THEN 1
    ELSE IF pcMain \in {"joinSources", "joinWriter"}
         THEN (IF isRunning THEN 2 ELSE 3)
         ELSE 4

\* C15: the pipeline state never goes back, and outside Configured no step
\* spawns a writer or reader thread or raises the running flag (a second
\* start() changes nothing).
C15_Lifecycle ==
    [][/\ Lifecycle' >= Lifecycle
       /\ Lifecycle # 1 =>
            /\ writers' = writers
            /\ \A k \in Kinds : spc[k] \in {"done", "unspawned"}
                                => spc'[k] \in {spc[k], "gone"}
            /\ isRunning' => isRunning]_vars

\* C16: with no source enabled, start() has returned to the host by the
\* time the process ends.
C16_ZeroSources ==
    [][(srcs = {} /\ startCalls >= 1 /\ proc' = "exited")
        => pcMain \in {"returned", "joinWorkers", "destroyed"}]_vars

InCriticalSection(h) ==
    \/ \E p \in Producers :
            h = LogHolder(p) /\ lpc[p] \in {"pushLocked", "taskLocked"}
    \/ \E d \in DrainerIds :
            h = DrainHolder(d) /\ dpc[d] \in {"qLocked", "popLocked"}

C19_FileSinkAppends ==
    pcMain = "constructed" =>
        \A i \in 1..Len(attached) :
            (attached[i].kind = "file" /\ attached[i].open) =>
                /\ IsPrefix(disk0[attached[i].path], disk[attached[i].path])
                /\ Len(disk[attached[i].path])
                      = Len(disk0[attached[i].path]) + written

\* enabled file sinks whose file cannot be opened
FailedFiles == {f \in Paths : fcfg.files[f] /\ ~canOpen[f]}

\* C20: a file sink whose file cannot be opened is not attached, one
\* error report is emitted for each such sink, and the other sinks are
\* attached.
C20_SinkOpenFailure ==
    pcMain = "constructed" =>
        /\ \A i \in 1..Len(attached) :
                attached[i].kind = "file" => attached[i].path \notin FailedFiles
        /\ sinkErrors = Cardinality(FailedFiles)
        /\ \A f \in Paths : (fcfg.files[f] /\ canOpen[f]) =>
                \E i \in 1..Len(attached) :
                    attached[i].kind = "file" /\ attached[i].path = f

\* a decimal float: an optional sign, digits with at most one radix point
\* and at least one digit, and nothing before or after
IsDecimalFloat(s) ==
    LET u == IF s # <<>> /\ Head(s) = "-" THEN Tail(s) ELSE s
        ip == DigitPrefix(u)
        rest == SubSeq(u, Len(ip) + 1, Len(u))
        point == rest # <<>> /\ Head(rest) = "."
        fp == IF point THEN DigitPrefix(Tail(rest)) ELSE <<>>
    IN  /\ Len(ip) + Len(fp) >= 1
        /\ Len(u) = Len(ip) + Len(fp) + (IF point THEN 1 ELSE 0)

\* the reader has called Formatter<Policy>::format on `raw`
Formatted == fpc = "sleep" /\ policy \in {"cpu", "ram", "gpu"}

\* C21: Formatter<Policy>::format returns empty for every raw line that
\* is not a decimal float ("", blanks, "NaN", letters) and a record for
\* every decimal float.
C21_ParseFailure ==
    Formatted => (msg = <<>> <=> ~IsDecimalFloat(raw))

\* format was given "NaN" and returned a record
C21_NaNAccepted ==
    Formatted /\ raw = <<"N", "a", "N">> /\ msg # <<>>

\* enum class severity_level in the order Info < Warning < Critical
SevRank(l) == IF l = "Info" THEN 0 ELSE IF l = "Warning" THEN 1 ELSE 2

\* inferSeverity has returned for both floats
BothInferred == slevel # <<>> /\ \A i \in 1..2 : slevel[i] # "none"

\* C22: inferSeverity is non-decreasing: for floats v1 <= v2 the level of
\* v1 is at most the level of v2 in the order Info < Warning < Critical.
C22_SeverityMonotone ==
    (BothInferred /\ Leq(sval[1], sval[2])) =>
        SevRank(slevel[1]) <= SevRank(slevel[2])

\* a float below the warning threshold and one at the critical threshold
\* got Info and Critical
C22_Witness ==
    /\ BothInferred
    /\ Leq(sval[1], sval[2])
    /\ slevel[1] = "Info" /\ slevel[2] = "Critical"

\* the separator a reader of the line splits on
Separator == <<"]", " ", "[">>

StartsWith(s, p) == Len(s) >= Len(p) /\ SubSeq(s, 1, Len(p)) = p

\* s holds the separator somewhere
HasSeparator(s) ==
    \E i \in 1..Len(s) : StartsWith(SubSeq(s, i, Len(s)), Separator)

\* the pieces between the occurrences of the separator, found from the
\* left; cur is the piece being collected
RECURSIVE SplitOn(_, _)
SplitOn(s, cur) ==
    IF s = <<>> THEN <<cur>>
    ELSE IF StartsWith(s, Separator)
    THEN <<cur>> \o SplitOn(SubSeq(s, Len(Separator) + 1, Len(s)), <<>>)
    ELSE SplitOn(Tail(s), Append(cur, Head(s)))

\* the line without its first "[" and its final "]" and newline, split
ParseLine(l) == SplitOn(SubSeq(l, 2, Len(l) - 2), <<>>)

FieldsOf(m) == <<m.app_name, m.time, m.context, m.level, m.message>>

BothRendered == os # <<>> /\ \A i \in 1..2 : os[i] # <<>>

\* splitting a rendered line whose fields hold no separator gives the
\* five fields back
RoundTrip ==
    BothRendered =>
        \A i \in 1..2 :
            (\A k \in 1..5 : ~HasSeparator(FieldsOf(lmsg[i])[k])) =>
                ParseLine(os[i]) = FieldsOf(lmsg[i])

\* C23: a record is rendered as
\* "[app_name] [timestamp] [context] [severity] [message]" and a newline;
\* when no field holds "] [" splitting the line on "] [" gives the five
\* fields back; two records with different fields never render to the
\* same line.
C23_RenderRoundTrip ==
    /\ RoundTrip
    /\ BothRendered => (os[1] = os[2] => lmsg[1] = lmsg[2])

\* the policy a "policy" value names when letter case is ignored
PolicyContext(p) ==
    IF p \in {"cpu", "Cpu", "CPU"} THEN "CPU"
    ELSE IF p \in {"ram", "Ram", "RAM"} THEN "RAM"
    ELSE "GPU"

\* C24: whatever the letter case of the configured policy ("CPU", "Cpu",
\* "cpu", likewise ram and gpu), every numeric line read is formatted
\* with that policy and yields a record.
C24_PolicyCaseInsensitive ==
    (fpc = "sleep" /\ IsDecimalFloat(raw)) =>
        /\ msg # <<>>
        /\ handed = msg
        /\ msg[1].context = PolicyContext(policy)

\* the live objects whose member holds descriptor d
Owners(d) == {o \in Objs : life[o] = "live" /\ fd[o] = d}

\* C25: every descriptor that was opened and is not closed is held by
\* exactly one live object, a closed one by none; an object that was moved
\* from holds -1; no descriptor is closed twice, and once every object is
\* destroyed every descriptor has been closed exactly once.
C25_DescriptorOwnership ==
    life # <<>> =>
        /\ \A d \in 1..opened :
              /\ closes[d] <= 1
              /\ Cardinality(Owners(d)) = 1 - closes[d]
        /\ \A o \in movedFrom : fd[o] = 0 - 1
        /\ (\A o \in Objs : life[o] = "dead") =>
              \A d \in 1..opened : closes[d] = 1

\* every descriptor the bound allows was opened, two objects were moved
\* from, and every object has been destroyed
C25_Witness ==
    /\ life # <<>>
    /\ \A o \in Objs : life[o] = "dead"
    /\ opened = MaxFds
    /\ Cardinality(movedFrom) >= 2

\* C26: read_index and write_index are in [0, capacity), count is in
\* [0, capacity], and (write_index - read_index) mod capacity = count
\* exactly when count < capacity; when count = capacity the two indices
\* are equal.
C26_IndexInvariant ==
    LET N == messages.capacity
        r == messages.read_index
        w == messages.write_index
        k == messages.count
    IN  /\ r \in 0..(N - 1)
        /\ w \in 0..(N - 1)
        /\ k \in 0..N
        /\ ((w - r) % N = k) <=> (k < N)
        /\ (k = N) => (r = w)

\* the buffer is full again after both indices have wrapped around
C26_Witness ==
    /\ messages.capacity > 1
    /\ messages.count = messages.capacity
    /\ messages.read_index = messages.write_index
    /\ messages.read_index # 0
    /\ Len(popped) > 0

\* C27: trypop on an empty buffer returns empty and changes nothing;
\* otherwise it returns the record at read_index, clears that slot,
\* advances read_index by one modulo capacity and decrements count, and
\* leaves write_index and every other slot as they were.  (A step that
\* produces nothing is a trypop; on an empty buffer it may not be a change
\* of state at all.)
C27_TrypopEffect ==
    [][produced' = produced =>
        /\ messages.count > 0
        /\ popped' = Append(popped, messages.buffer[messages.read_index])
        /\ messages'.buffer[messages.read_index] = NoRecord
        /\ \A i \in 0..(messages.capacity - 1) :
              i # messages.read_index =>
                  messages'.buffer[i] = messages.buffer[i]
        /\ messages'.read_index
              = (messages.read_index + 1) % messages.capacity
        /\ messages'.count = messages.count - 1
        /\ messages'.write_index = messages.write_index
        /\ messages'.capacity = messages.capacity
        /\ pushed' = pushed /\ rejected' = rejected]_vars

\* trypop has emptied a buffer of more than one slot and read_index has
\* wrapped around
C27_Witness ==
    /\ messages.capacity > 1
    /\ messages.count = 0
    /\ Len(popped) > messages.capacity

\* threads between the entry and the return of tryPush or trypop
InRingCall ==
    {LogHolder(p) : p \in {q \in Producers : lpc[q] # "idle"}}
    \cup {DrainHolder(d) : d \in {e \in Poppers : dpc[e] # "none"}}

\* C28: on a buffer of capacity 1 concurrent tryPush and trypop calls
\* behave as if run one after the other: at most one call is under way at
\* any moment, count stays in {0, 1}, and between calls what was popped
\* followed by what is held is exactly what was accepted, so that no
\* record is corrupted, lost or returned twice, a push fails only on a
\* full buffer and a pop returns empty only on an empty one.
C28_SingleSlotAtomic ==
    messages.capacity = 1 =>
        /\ Cardinality(InRingCall) <= 1
        /\ proc = "running"
        /\ messages.count \in {0, 1}
        /\ \A i, j \in 1..Len(popped) : i # j => popped[i] # popped[j]
        /\ InRingCall = {} =>
              /\ popped \o Held = pushed
              /\ (messages.count = 1) <=> (messages.buffer[0] # NoRecord)
              /\ PushCalls = Len(pushed) + Cardinality(rejected)

\* a thread is about to call tryPush while a trypop is inside its body,
\* after a push was rejected on the full buffer and a record came out
C28_Witness ==
    /\ messages.capacity = 1
    /\ \E p \in Producers :
          /\ lpc[p] = "idle" /\ produced[p] < MaxMsgs
          /\ \E d \in Poppers : dpc[d] = "reset"
    /\ rejected # {}
    /\ Len(popped) >= 1

\* setupSinks pushed the console sink first, if any, and the file sinks
\* after it in the order of the "files" array
AttachedInConfigOrder ==
    pcMain = "constructed" =>
        \A i, j \in 1..Len(attached) :
            i < j =>
                /\ attached[j].kind = "file"
                /\ attached[i].kind = "file" =>
                        attached[i].path < attached[j].path

\* C29: every record popped by write() is written to the sinks one after
\* the other in the order they were added: when its write to a sink starts
\* its writes to all earlier sinks have returned and none to this or a
\* later sink has happened, and a record written to a sink has been
\* written to every earlier one.
C29_FanOutOrder ==
    /\ \A d \in DrainerIds :
          dpc[d] \in {"enter", "in"} =>
              /\ \A a \in 1..(dsink[d] - 1) : dmsg[d] \in Completed(a)
              /\ \A b \in dsink[d]..nSinks : dmsg[d] \notin Completed(b)
    /\ \A b \in Sinks : \A a \in 1..(b - 1) : Completed(b) \subseteq Completed(a)

\* a drainer is inside the write of the second sink with a record whose
\* write to the first sink has returned, while another drainer is inside
\* the write of the first sink with another record
C29_Witness ==
    \E d1, d2 \in DrainerIds :
        /\ dpc[d1] = "in" /\ dsink[d1] = 2 /\ dmsg[d1] \in Completed(1)
        /\ dpc[d2] = "in" /\ dsink[d2] = 1 /\ dmsg[d2] # dmsg[d1]

\* C30: openSource on a socket source that is already connected keeps the
\* connection it has: no tick of the socket reader loop closes a connected
\* socket to connect again, and no line the peer has sent on the connection
\* is discarded unread.
C30_OpenIdempotent == ~reconnected /\ lost = 0

\* operator< of float: false whenever an operand is NaN
Lt(a, b) == ~a.nan /\ ~b.nan /\ a.x < b.x

\* C31: inferSeverity(v) is Critical when v >= the critical threshold,
\* Warning when the warning threshold <= v < the critical threshold, and
\* Info otherwise; a value equal to a threshold gets the higher level.
C31_InclusiveThresholds ==
    \A i \in DOMAIN slevel :
        slevel[i] # "none" =>
            LET v == sval[i]
                critical == Geq(v, Num(RAM_Critical))
                warning == Geq(v, Num(RAM_Warning)) /\ Lt(v, Num(RAM_Critical))
            IN  /\ critical => slevel[i] = "Critical"
                /\ warning => slevel[i] = "Warning"
                /\ (~critical /\ ~warning) => slevel[i] = "Info"

\* the float equal to the warning threshold got Warning and the float
\* equal to the critical threshold got Critical
C31_Witness ==
    /\ BothInferred
    /\ sval[1] = Num(RAM_Warning) /\ slevel[1] = "Warning"
    /\ sval[2] = Num(RAM_Critical) /\ slevel[2] = "Critical"

\* the SOME/IP reader is inside its loop on a proxy openSource built
SomeIPInLoop == spc["someip"] \in {"test", "read"} /\ isOpen["someip"]

\* C32: once the SOME/IP reader has opened its source (openSource returned
\* true) the source is subscribed to the value-update notifications and
\* has made an initial request, before the first readSource of the loop.
C32_ServiceChannelOpen == SomeIPInLoop => (subscribed /\ requested)

\* the newline-delimited segments of the characters f that follow the
\* characters cur of an unfinished segment, without the newlines; a last
\* segment with no newline after it counts when it is not empty
RECURSIVE SegmentsFrom(_, _)
SegmentsFrom(f, cur) ==
    IF f = <<>> THEN (IF cur = <<>> THEN <<>> ELSE <<cur>>)
    ELSE IF Head(f) = "\n" THEN <<cur>> \o SegmentsFrom(Tail(f), <<>>)
    ELSE SegmentsFrom(Tail(f), Append(cur, Head(f)))

Segments(f) == SegmentsFrom(f, <<>>)

\* no ::read of the calls 1..i failed with a real error
NoFaultUpTo(i) == \A j \in 1..i : ~rcalls[j].fault

\* C33: successive readLine calls return true with, in order, the
\* newline-delimited segments of the file without the newline, a last
\* segment with no newline included; once the segments are used up a call
\* returns false with `out` empty; a call returns false on a read error and
\* always when the descriptor is -1; `out` never keeps what it held before
\* the call.
C33_ReadLine ==
    LET segs == Segments(rfile)
    IN  /\ \A i \in 1..Len(rcalls) :
               /\ rcalls[i].fault => ~rcalls[i].ok
               /\ rfd = 0 - 1 => (~rcalls[i].ok /\ rcalls[i].out = <<>>)
               /\ (rfd # 0 - 1 /\ NoFaultUpTo(i)) =>
                      IF i <= Len(segs)
                      THEN rcalls[i].ok /\ rcalls[i].out = segs[i]
                      ELSE ~rcalls[i].ok /\ rcalls[i].out = <<>>
        /\ rlpc = "loop" => rout = SubSeq(rfile, roff - Len(rout) + 1, roff)

\* the file "a\nb": the calls returned "a", then the unterminated "b", then
\* false at end of file, with one ::read interrupted on the way
C33_Witness ==
    /\ rfile = <<"a", "\n", "b">>
    /\ rintr = 1 /\ rerr = 0
    /\ rcalls = <<[ok |-> TRUE, out |-> <<"a">>, fault |-> FALSE],
                  [ok |-> TRUE, out |-> <<"b">>, fault |-> FALSE],
                  [ok |-> FALSE, out |-> <<>>, fault |-> FALSE]>>

\* the file reader thread ends in this step
FileReaderEnds == spc["file"] # "done" /\ spc'["file"] = "done"

\* the file reader's readSource returns in this step (the thread is not
\* taken away with its process)
FileReadReturns == spc["file"] = "read" /\ spc'["file"] \notin {"read", "gone"}

LogReturned(m) ==
    /\ produced[m.src] >= m.seq
    /\ rpc[m.src] # "gone"
    /\ ~(rcur[m.src] = m /\ rpc[m.src] \in {"push", "diag", "task"})

\* C35: every call of LogManager::log enqueues exactly one write() task on
\* the pool, after its push attempt, whether tryPush took the record or the
\* record was dropped.
C35_LogSchedulesDrain ==
    \A m \in Records :
        /\ taskLog[m] <= 1
        /\ taskLog[m] = 1 => m \in Accepted \cup rejected
        /\ LogReturned(m) => taskLog[m] = 1

\* one log() call whose record was taken and one whose record was dropped
\* have both returned, each with its one task enqueued
C35_Witness ==
    \E m1 \in Accepted, m2 \in rejected :
        /\ LogReturned(m1) /\ taskLog[m1] = 1
        /\ LogReturned(m2) /\ taskLog[m2] = 1

\* the records of a sequence, as a set
RecordsOf(q) == {q[i] : i \in 1..Len(q)}

\* thread d's call of write() returns in this step
WriteReturns(d) == dpc[d] = "pop" /\ dpc'[d] = AfterWrite(d)

\* sink s got its records in the order in which they were pushed
InPushOrder(s) ==
    \A i, j \in 1..Len(sinkOut[s]) :
        i < j => \E a, b \in 1..Len(pushed) :
                     a < b /\ pushed[a] = sinkOut[s][i].rec
                           /\ pushed[b] = sinkOut[s][j].rec

\* C36: write() returns only after a trypop found the buffer empty, and
\* with no push made while it ran the buffer is empty on return and every
\* record the buffer held when the call began has been written to every
\* sink, in FIFO order.
C36_WriteDrains ==
    [][\A d \in DOMAIN held :
           WriteReturns(d) =>
               /\ messages.count = 0
               /\ messages'.count = 0
               /\ \A s \in 1..nSinks :
                      /\ RecordsOf(held[d]) \subseteq Completed(s)'
                      /\ InPushOrder(s)']_vars

\* the pool workers
Workers == 1..nWorkers

\* worker d takes a task off the queue and starts to run it in this step
TakesTask(d) == dpc[d] = "idle" /\ dpc'[d] = "pop"

\* the process is still there after this step
ProcessStays == proc' \notin {"exited", "aborted"}

\* C37: every task handed to push_task before ~ThreadPool starts is run
\* exactly once, by exactly one worker: the queue loses a task only to the
\* one worker that starts to run it and a worker starts a task only by
\* taking one; ~ThreadPool returns only when the queue is empty and every
\* worker has left worker_loop.
C37_TasksRunOnce ==
    [][ProcessStays =>
           /\ tasks' < tasks =>
                  /\ tasks' = tasks - 1
                  /\ \E d \in Workers :
                         /\ TakesTask(d)
                         /\ \A e \in Workers \ {d} : dpc'[e] = dpc[e]
           /\ \A d \in Workers : TakesTask(d) => tasks' = tasks - 1
           /\ (pcMain # "destroyed" /\ pcMain' = "destroyed") =>
                  /\ tasks' = 0
                  /\ \A d \in Workers : dpc'[d] = "exited"]_vars

\* two log() calls handed a task each to a pool of two workers, the queue
\* is empty and ~ThreadPool has returned
C37_Witness ==
    /\ pcMain = "destroyed"
    /\ nWorkers = 2 /\ tasks = 0
    /\ \E m1, m2 \in Records :
           m1 # m2 /\ taskLog[m1] = 1 /\ taskLog[m2] = 1

\* drainer d is inside LogManager::write: about to call trypop on the
\* buffer, or holding a record it writes to the sinks
InsideWrite(d) == dpc[d] \in {"pop", "enter", "in"}

====
